---- MODULE Spec2Model ----
(***************************************************************************)
(* A model of the manifold API client (github.com/e74000/manifold).        *)
(*                                                                         *)
(* A caller invokes one endpoint operation at a time on a Client.  Each    *)
(* operation is written as the list of statements its Go method executes   *)
(* (validation checks, map assignments, the HTTP request), and Exec runs   *)
(* that list the way the method runs: in order, returning at the first     *)
(* failing check.  The network's answer and the reading of time.Now() are  *)
(* inputs chosen by the environment.                                       *)
(*                                                                         *)
(* Go values are represented as follows:                                   *)
(*   - a pointer parameter is a sequence: <<>> for nil, <<v>> for &v;      *)
(*   - an error is the chain of its messages, outermost first; <<>> is nil;*)
(*   - a map is a function from its keys;                                  *)
(*   - a float64 is the integer numerator k of the fraction k / FloatDen,  *)
(*     or NaN;                                                             *)
(*   - a time.Time is an integer number of clock ticks since the epoch,    *)
(*     TicksPerMilli ticks to the millisecond;                             *)
(*   - an int is an integer of IntBits bits where the code does arithmetic *)
(*     on it (CreatePseudoNumeric), and a plain integer elsewhere.         *)
(***************************************************************************)
EXTENDS Integers, Sequences, FiniteSets, TLC

VARIABLES
    client,     \* the Client's configuration: [BaseURL, APIKey]
    pc,         \* "idle": no call in progress; "done": a call has returned
    op,         \* the operation that was called, "Service.Method"
    args,       \* its arguments
    now,        \* <<what time.Now() returns during the call>>, <<>> if the
                \* operation never consults the clock
    trace,      \* the steps the call executed: "check", "now", "request"
                \* (an HTTP request went out), "marshal" (POST failed to
                \* serialize its body), "decode"
    request,    \* the HTTP request the call issued, <<>> if it issued none
    response,   \* <<what the network made of that request>>, <<>> if none
    err,        \* the error the call returned, <<>> for nil
    value,      \* what the call returned beside the error
    calls,      \* concurrent callers: for each, the call it is executing
    heap        \* the maps the calls in progress have made, by cell

vars ==
    <<client, pc, op, args, now, trace, request, response, err, value, calls, heap>>

-----------------------------------------------------------------------------
(* Bounds of the model. *)

\* Times (arguments and clock readings) range over 0..MaxTime ticks.
MaxTime == 2
\* Clock ticks per millisecond (1e6 nanoseconds in the program).
TicksPerMilli == 2
\* A float64 k stands for k / FloatDen.
FloatDen == 2
\* Width of an int where the code computes with it.
IntBits == 8
\* At most MaxPresent of a call's optional (pointer) arguments are non-nil
\* (one fewer in CreatePseudoNumeric, whose three integers vary together, and
\* in Search, whose enumerated arguments take every allowed value).
MaxPresent == 2
\* The number of callers that use the Client concurrently.
NumCallers == 2

-----------------------------------------------------------------------------
(* Program constants. *)

\* The upper bound of every limit parameter.
MaxLimit == 1000
\* CreateBinary's bounds on initialProb.
MinInitialProb == 1
MaxInitialProb == 99
\* The upper bound of probabilityInt.
MaxProbabilityInt == 100
\* The total the percentages of a MKT resolution must add up to.
TotalPct == 100

-----------------------------------------------------------------------------
(* Go values. *)

Nil == <<>>

Some(v) == <<v>>

Opt(S) == {Nil} \cup {Some(v) : v \in S}

NoErr == <<>>

\* fmt.Errorf("<ctx>: %w", e)
Wrap(ctx, e) == <<ctx>> \o e

EmptyMap == <<>>

\* m[k] = v
Put(m, k, v) == (k :> v) @@ m

Has(m, k) == k \in DOMAIN m

MinInt == 0 - 2 ^ (IntBits - 1)

MaxInt == 2 ^ (IntBits - 1) - 1

\* The value of an int computation, which wraps around.
WrapInt(x) == ((x - MinInt) % (2 ^ IntBits)) + MinInt

Digit(d) ==
    CASE d = 0 -> "0" [] d = 1 -> "1" [] d = 2 -> "2" [] d = 3 -> "3"
      [] d = 4 -> "4" [] d = 5 -> "5" [] d = 6 -> "6" [] d = 7 -> "7"
      [] d = 8 -> "8" [] d = 9 -> "9"

RECURSIVE FormatNat(_)
FormatNat(n) ==
    IF n < 10 THEN Digit(n) ELSE FormatNat(n \div 10) \o Digit(n % 10)

\* fmt.Sprintf("%d", n)
FormatInt(n) == IF n < 0 THEN "-" \o FormatNat(0 - n) ELSE FormatNat(n)

RECURSIVE PadNat(_, _)
PadNat(n, width) ==
    IF width = 0 THEN "" ELSE PadNat(n \div 10, width - 1) \o Digit(n % 10)

\* fmt.Sprintf("%f", k / FloatDen): six decimals, rounded to nearest.
FormatFloat(k) ==
    LET a      == IF k < 0 THEN 0 - k ELSE k
        micros == (2 * a * 1000000 + FloatDen) \div (2 * FloatDen)
    IN  (IF k < 0 THEN "-" ELSE "")
            \o FormatNat(micros \div 1000000) \o "." \o PadNat(micros % 1000000, 6)

\* url.PathEscape(s), for the strings the model passes.
PathEscape(s) == IF s = "a/b" THEN "a%2Fb" ELSE s

\* t.UnixNano()
UnixMilli_Nano(t) == t

\* t.UnixMilli()
UnixMilli(t) == t \div TicksPerMilli

\* The float64 that is not a number, set apart from every numerator the
\* model uses.
NaN == 1000 * FloatDen

\* time.Now().Before(t)
After_Before(reading, t) == reading < t

\* !time.Now().Before(t)
After_OrEqual(reading, t) == reading >= t

\* time.Now().After(t), where time.Now() returned reading
After(reading, t) == reading > t

-----------------------------------------------------------------------------
(* Validation primitives. *)

checkOneOf_NoLast(v, allowed) ==
    IF \E i \in 1..(Len(allowed) - 1) : v = allowed[i]
    THEN NoErr
    ELSE <<"invalid value: %v, allowed values are: %v">>

checkOneOf(v, allowed) ==
    IF \E i \in 1..Len(allowed) : v = allowed[i]
    THEN NoErr
    ELSE <<"invalid value: %v, allowed values are: %v">>

checkInRange_Exclusive(v, lo, hi) ==
    IF v <= lo \/ v >= hi
    THEN <<"invalid value: %v, must be within range [%v, %v]">>
    ELSE NoErr

checkInRange(v, lo, hi) ==
    IF v < lo \/ v > hi
    THEN <<"invalid value: %v, must be within range [%v, %v]">>
    ELSE NoErr

-----------------------------------------------------------------------------
(* The environment: what the HTTP exchange of a call comes to. *)

\* HTTPClient.Do failed (connection refused, timeout, ...).
NetFail == [neterr |-> TRUE, readerr |-> FALSE, status |-> 0, body |-> "none"]

\* The exchange succeeded and reading the body failed.
ReadFail == [neterr |-> FALSE, readerr |-> TRUE, status |-> 200, body |-> "none"]

\* The exchange succeeded: a status code and a body, which is a JSON
\* object or a JSON array.
Answers ==
    { [neterr |-> FALSE, readerr |-> FALSE, status |-> 200, body |-> "object"],
      [neterr |-> FALSE, readerr |-> FALSE, status |-> 200, body |-> "array"],
      [neterr |-> FALSE, readerr |-> FALSE, status |-> 404, body |-> "object"],
      [neterr |-> FALSE, readerr |-> FALSE, status |-> 500, body |-> "array"] }

Responses == {NetFail, ReadFail} \cup Answers

ErrorGETFailed == "GET failed"

ErrorPOSTFailed == "POST failed"

ErrorFailedToParseResponse == "failed to parse response"

-----------------------------------------------------------------------------
(* Transport client. *)

APIKeys == {"", "key"}

\* NewClient(apiKey)
NewClient(apiKey) ==
    [BaseURL |-> "https://api.manifold.markets/v0", APIKey |-> apiKey]

\* req.Header.Add("Authorization", ...) without the test of c.APIKey
AuthHeader_Always(c) == "Authorization" :> ("Key " \o c.APIKey)

\* The Authorization header both GET and POST add.
AuthHeader(c) ==
    IF c.APIKey # "" THEN ("Authorization" :> ("Key " \o c.APIKey)) ELSE EmptyMap

\* Do with a status of 400 and above turned into an error.
Do_CheckStatus(req, resp) ==
    IF resp.neterr
    THEN [request |-> Some(req), bytes |-> "none", err |-> <<"http: request failed">>]
    ELSE IF resp.readerr
    THEN [request |-> Some(req), bytes |-> "none", err |-> <<"read: unexpected EOF">>]
    ELSE IF resp.status >= 400
    THEN [request |-> Some(req), bytes |-> "none", err |-> <<"http: bad status">>]
    ELSE [request |-> Some(req), bytes |-> resp.body, err |-> NoErr]

\* What HTTPClient.Do and ioutil.ReadAll return for the request, which has
\* gone out; the status code of the answer is not looked at.
Do(req, resp) ==
    IF resp.neterr
    THEN [request |-> Some(req), bytes |-> "none", err |-> <<"http: request failed">>]
    ELSE IF resp.readerr
    THEN [request |-> Some(req), bytes |-> "none", err |-> <<"read: unexpected EOF">>]
    ELSE [request |-> Some(req), bytes |-> resp.body, err |-> NoErr]

\* Client.GET(endpoint, params)
GET(c, endpoint, params, resp) ==
    Do([method  |-> "GET",
        url     |-> c.BaseURL \o endpoint,
        query   |-> params,
        headers |-> AuthHeader(c),
        body    |-> <<>>], resp)

\* json.Marshal(b) of a map: fails on a float64 that is NaN.  b is
\* [map |-> m, floats |-> the keys of m that hold a float64].
Marshal(b) ==
    IF \E k \in b.floats : b.map[k] = NaN
    THEN [json |-> Nil, err |-> <<"json: unsupported value: NaN">>]
    ELSE [json |-> Some(b.map), err |-> NoErr]

\* POST that goes on with a zero-length body when json.Marshal fails.
POST_IgnoreMarshalError(c, endpoint, body, resp) ==
    LET j == IF body # Nil THEN Marshal(body[1]) ELSE [json |-> Nil, err |-> NoErr]
    IN  Do([method  |-> "POST",
            url     |-> c.BaseURL \o endpoint,
            query   |-> EmptyMap,
            headers |-> Put(AuthHeader(c), "Content-Type", "application/json"),
            body    |-> j.json], resp)

\* Client.POST(endpoint, body): body is <<>> for a nil body and <<b>> for
\* the map b.  The request carries <<>> for a zero-length body and <<m>> for
\* the JSON encoding of the map m.
POST(c, endpoint, body, resp) ==
    LET j == IF body # Nil THEN Marshal(body[1]) ELSE [json |-> Nil, err |-> NoErr]
    IN  IF j.err # NoErr
        THEN [request |-> Nil, bytes |-> "none", err |-> j.err]
        ELSE Do([method  |-> "POST",
                 url     |-> c.BaseURL \o endpoint,
                 query   |-> EmptyMap,
                 headers |-> Put(AuthHeader(c), "Content-Type", "application/json"),
                 body    |-> j.json], resp)

\* json.Unmarshal(bytes, target): target is a slice ("array") or a struct
\* ("object").
Unmarshal_AnyShape(bytes, shape) == NoErr

Unmarshal(bytes, shape) ==
    IF bytes = shape
    THEN NoErr
    ELSE <<"json: cannot unmarshal">>

-----------------------------------------------------------------------------
(* The statements of an endpoint method. *)

\* if err := <check>; err != nil { return ..., err }     (e is that err)
Check(e) == [kind |-> "check", err |-> e]

\* if err := <check>; err != nil { return ..., fmt.Errorf("<ctx>: %w", err) }
CheckWrap(ctx, e) == Check(IF e # NoErr THEN Wrap(ctx, e) ELSE NoErr)

\* params[k] = v
Set(k, v) == [kind |-> "put", key |-> k, val |-> v]

\* params[k] = v in a map[string]interface{}, v a float64
SetFloat(k, v) == [kind |-> "putfloat", key |-> k, val |-> v]

\* The request of a method, with the map built so far, and the wrapping of
\* a transport error.
\*   method:   "GET" or "POST"
\*   ctx:      the prefix of the method's error messages
\*   sentinel: the sentinel error the method wraps a transport error in,
\*             <<>> when it wraps the bare error
\*   nilBody:  the method passes nil instead of a map
Send(method, endpoint, ctx, sentinel, nilBody) ==
    [kind |-> "request", method |-> method, endpoint |-> endpoint, ctx |-> ctx,
     sentinel |-> sentinel, nilBody |-> nilBody]

\* err = json.Unmarshal(result, target); return target or the wrapped error.
\*   shape: target is a slice ("array") or a struct ("object")
Decode(ctx, sentinel, shape) ==
    [kind |-> "decode", ctx |-> ctx, sentinel |-> sentinel, shape |-> shape]

\* The tail of a method: the request, and the decoding of the answer
\* unless the method ignores it (shape "none").
\*   sentinels: what the method wraps a transport error and a decoding
\*              error in
Call(method, endpoint, ctx, sentinels, shape, nilBody) ==
    << Send(method, endpoint, ctx, sentinels[1], nilBody) >>
        \o (IF shape # "none"
            THEN << Decode(ctx, sentinels[2], shape) >>
            ELSE <<>>)

\* fmt.Errorf("...: %w: %w", ErrorGETFailed, err), and the same with
\* ErrorFailedToParseResponse
GETSentinels == << <<ErrorGETFailed>>, <<ErrorFailedToParseResponse>> >>

POSTSentinels == << <<ErrorPOSTFailed>>, <<ErrorFailedToParseResponse>> >>

\* fmt.Errorf("...: %w", err)
NoSentinels == << <<>>, <<>> >>

CallGET(endpoint, ctx, shape) ==
    Call("GET", endpoint, ctx, GETSentinels, shape, FALSE)

CallPOST(endpoint, ctx, shape) ==
    Call("POST", endpoint, ctx, POSTSentinels, shape, FALSE)

\* The state of a method that has not executed anything yet.
Start ==
    [params |-> EmptyMap, floats |-> {}, trace |-> <<>>, request |-> Nil,
     bytes |-> "none", err |-> NoErr, value |-> Nil, returned |-> FALSE]

\* The request statement with a second attempt after a failed one.
DoRequest_Retry(s, st, c, resp) ==
    LET r  == IF s.method = "GET"
              THEN GET(c, s.endpoint, st.params, resp)
              ELSE POST(c, s.endpoint,
                        IF s.nilBody THEN Nil
                        ELSE Some([map |-> st.params, floats |-> st.floats]),
                        resp)
        s1 == [st EXCEPT !.trace = Append(st.trace, IF r.request # Nil
                                                    THEN "request"
                                                    ELSE "marshal"),
                         !.request = r.request,
                         !.bytes = r.bytes]
    IN  IF r.err # NoErr
        THEN [s1 EXCEPT !.trace = Append(s1.trace, IF r.request # Nil
                                                   THEN "request"
                                                   ELSE "marshal"),
                        !.err = <<s.ctx>> \o s.sentinel \o r.err,
                        !.returned = TRUE]
        ELSE s1

\* The request statement s, executed in state st.
DoRequest(s, st, c, resp) ==
    LET r  == IF s.method = "GET"
              THEN GET(c, s.endpoint, st.params, resp)
              ELSE POST(c, s.endpoint,
                        IF s.nilBody THEN Nil
                        ELSE Some([map |-> st.params, floats |-> st.floats]),
                        resp)
        s1 == [st EXCEPT !.trace = Append(st.trace, IF r.request # Nil
                                                    THEN "request"
                                                    ELSE "marshal"),
                         !.request = r.request,
                         !.bytes = r.bytes]
    IN  IF r.err # NoErr
        THEN [s1 EXCEPT !.err = <<s.ctx>> \o s.sentinel \o r.err,
                        !.returned = TRUE]
        ELSE s1

\* The decode statement s, executed in state st.
DoDecode(s, st) ==
    LET d  == Unmarshal(st.bytes, s.shape)
        s1 == [st EXCEPT !.trace = Append(st.trace, "decode"), !.returned = TRUE]
    IN  IF d # NoErr
        THEN [s1 EXCEPT !.err = <<s.ctx>> \o s.sentinel \o d]
        ELSE [s1 EXCEPT !.value = Some([shape |-> s.shape])]

\* time.Now()
ReadClock == [kind |-> "now"]

\* One statement.
Step(s, st, c, resp) ==
    CASE s.kind = "now" -> [st EXCEPT !.trace = Append(st.trace, "now")]
      [] s.kind = "check" ->
            IF s.err # NoErr
            THEN [st EXCEPT !.trace = Append(st.trace, "check"),
                            !.err = s.err, !.returned = TRUE]
            ELSE [st EXCEPT !.trace = Append(st.trace, "check")]
      [] s.kind = "put" ->
            [st EXCEPT !.params = Put(st.params, s.key, s.val)]
      [] s.kind = "putfloat" ->
            [st EXCEPT !.params = Put(st.params, s.key, s.val),
                       !.floats = st.floats \cup {s.key}]
      [] s.kind = "request" -> DoRequest(s, st, c, resp)
      [] s.kind = "decode" -> DoDecode(s, st)

\* The statements in order, up to the first return.
RECURSIVE Exec(_, _, _, _)
Exec(steps, st, c, resp) ==
    IF steps = <<>> \/ st.returned THEN st
    ELSE Exec(Tail(steps), Step(Head(steps), st, c, resp), c, resp)

-----------------------------------------------------------------------------
(* Argument values the caller draws from. *)

Range(seq) == {seq[i] : i \in DOMAIN seq}

\* How many of the pointer arguments ps are non-nil.
RECURSIVE Present(_)
Present(ps) ==
    IF ps = <<>> THEN 0
    ELSE (IF Head(ps) # Nil THEN 1 ELSE 0) + Present(Tail(ps))

Ids == {"a/b"}

Cursors == {"cur"}

\* The cursors Users is called with: an id, and the empty string.
UserCursors == {"cur", ""}

Texts == {"text"}

Times == 0..MaxTime

\* The values around both ends of [0, MaxLimit].
LimitVals == {0 - 1, 0, MaxLimit, MaxLimit + 1}

OffsetVals == {0 - 1, 0, 1}

\* float64 amounts -1, ..., 0, ..., 1 in steps of 1/FloatDen.
Amounts == (0 - FloatDen)..FloatDen

\* The float64 values that go into a body as they are.
Floats == Amounts \cup {NaN}

\* float64 probabilities from below 0 to above 1.
Probs == (0 - 1)..(FloatDen + 1)

Orders == {"asc", "desc", "up"}

Outcomes == {"YES", "NO", "MKT", "CANCEL", "MAYBE"}

Visibilities == {"public", "unlisted", "private"}

-----------------------------------------------------------------------------
(* UserService. *)

\* if limit != nil { check [0, 1000]; params["limit"] = ... }
LimitSteps(limit, ctx) ==
    IF limit # Nil
    THEN << CheckWrap(ctx, checkInRange(limit[1], 0, MaxLimit)),
            Set("limit", FormatInt(limit[1])) >>
    ELSE <<>>

\* if p != nil { params[key] = *p }
StrSteps(p, key) == IF p # Nil THEN << Set(key, p[1]) >> ELSE <<>>

\* An enumerated parameter that is sent without the membership check.
EnumSteps_NoCheck(p, key, allowed, ctx) ==
    IF p # Nil THEN << Set(key, p[1]) >> ELSE <<>>

\* if p != nil { check membership; params[key] = *p }
EnumSteps(p, key, allowed, ctx) ==
    IF p # Nil
    THEN << CheckWrap(ctx, checkOneOf(p[1], allowed)), Set(key, p[1]) >>
    ELSE <<>>

\* if t != nil { params[key] = fmt.Sprintf("%d", t.UnixMilli()) }
TimeSteps(t, key) ==
    IF t # Nil THEN << Set(key, FormatInt(UnixMilli(t[1]))) >> ELSE <<>>

UserUsers(limit, before) ==
    LimitSteps(limit, "User: Users(limit)")
        \o StrSteps(before, "before")
        \o CallGET("/users", "User: Users", "array")

UserUser(username) ==
    CallGET("/user/" \o PathEscape(username), "User: User", "object")

UserUserLite(username) ==
    CallGET("/user/" \o PathEscape(username) \o "/lite", "User: UserLite", "object")

UserID(id) ==
    CallGET("/user/by-id/" \o PathEscape(id), "User: ID", "object")

UserIDLite(id) ==
    CallGET("/user/by-id/" \o PathEscape(id) \o "/lite", "User: IDLite", "object")

UserMe == CallGET("/me", "User: Me", "object")

-----------------------------------------------------------------------------
(* GroupService. *)

GroupGroups(beforeTime, availableToUserID) ==
    TimeSteps(beforeTime, "beforeTime")
        \o StrSteps(availableToUserID, "availableToUserID")
        \o CallGET("/groups", "Group: Groups", "array")

GroupGroup(slug) ==
    CallGET("/group/" \o PathEscape(slug), "Group: Group", "object")

GroupID(id) ==
    CallGET("/group/by-id/" \o PathEscape(id), "Group: ID", "object")

-----------------------------------------------------------------------------
(* ManaService. *)

ManaManagrams(toID, fromID, limit, before, after) ==
    StrSteps(toID, "toId")
        \o StrSteps(fromID, "fromId")
        \o LimitSteps(limit, "Misc: Managrams(limit)")
        \o TimeSteps(before, "before")
        \o TimeSteps(after, "after")
        \o CallGET("/managrams", "Mana: Managrams", "array")

ManaManagram(toIDs, amount, message) ==
    << Set("toIds", toIDs), SetFloat("amount", amount) >>
        \o StrSteps(message, "message")
        \o CallPOST("/managram", "Mana: Managram", "none")

-----------------------------------------------------------------------------
(* CommentService. *)

\* if offset != nil { if *offset < 0 { return error }; params["offset"] = ... }
OffsetSteps(offset, ctx) ==
    IF offset # Nil
    THEN << Check(IF offset[1] < 0
                  THEN << ctx \o ": invalid value: %v, must be greater than 0" >>
                  ELSE NoErr),
            Set("offset", FormatInt(offset[1])) >>
    ELSE <<>>

CommentComments(contractID, contractSlug, limit, offset, userID) ==
    StrSteps(contractID, "contractId")
        \o StrSteps(contractSlug, "contractSlug")
        \o LimitSteps(limit, "Comment: Comments(limit)")
        \o OffsetSteps(offset, "Comment: Comments(offset)")
        \o StrSteps(userID, "userId")
        \o CallGET("/comments", "Comment: Comments", "array")

\* Comment that decodes the answer into a record.
CommentComment_Decoding(id, content) ==
    << Set("contractId", id), Set("content", content) >>
        \o CallPOST("/comment", "Comment: Comment", "object")

\* CommentService.Comment
CommentComment(id, content) ==
    << Set("contractId", id), Set("content", content) >>
        \o CallPOST("/comment", "Comment: Comment", "none")

CommentCommentHTML(id, content) ==
    << Set("contractId", id), Set("html", content) >>
        \o CallPOST("/comment", "Comment: CommentHTML", "none")

CommentCommentMarkdown(id, content) ==
    << Set("contractId", id), Set("markdown", content) >>
        \o CallPOST("/comment", "Comment: CommentMarkdown", "none")

-----------------------------------------------------------------------------
(* BetService. *)

BetBets(userID, username, contractID, contractSlug, limit, before, after, beforeTime, afterTime, kinds, order) ==
    StrSteps(userID, "userId")
        \o StrSteps(username, "username")
        \o StrSteps(contractID, "contractId")
        \o StrSteps(contractSlug, "contractSlug")
        \o LimitSteps(limit, "Bet: Bets(limit)")
        \o StrSteps(before, "before")
        \o StrSteps(after, "after")
        \o TimeSteps(beforeTime, "beforeTime")
        \o TimeSteps(afterTime, "afterTime")
        \o EnumSteps(kinds, "kinds", <<"open-limit">>, "Bet: Bets(kinds)")
        \o EnumSteps(order, "order", <<"asc", "desc">>, "Bet: Bets(order)")
        \o CallGET("/bets", "Bet: Bets", "array")

\* if dryRun != nil { body[key] = "true" or "false" }
BoolSteps(b, key) ==
    IF b # Nil THEN << Set(key, IF b[1] THEN "true" ELSE "false") >> ELSE <<>>

\* reading is what time.Now() returns if the method calls it.
BetCreate(amount, contractID, outcome, limitProb, expiresAt, dryRun, reading) ==
    << Set("amount", FormatFloat(amount)), Set("contractId", contractID) >>
        \o EnumSteps(outcome, "outcome", <<"YES", "NO">>, "Bet: Create(outcome)")
        \o (IF limitProb # Nil
            THEN << CheckWrap("Bet: Create(limitProb)",
                              checkInRange(limitProb[1], 0, 1 * FloatDen)),
                    Set("limitProb", FormatFloat(limitProb[1])) >>
            ELSE <<>>)
        \o (IF expiresAt # Nil
            THEN << Check(IF limitProb = Nil
                          THEN <<"Bet: Create(expiresAt): only limit orders can have an expiresAt">>
                          ELSE NoErr),
                    ReadClock,
                    Check(IF After(reading, expiresAt[1])
                          THEN <<"Bet: Create(expiresAt): limit order cannot expire in the past">>
                          ELSE NoErr),
                    Set("expiresAt", FormatInt(UnixMilli(expiresAt[1]))) >>
            ELSE <<>>)
        \o BoolSteps(dryRun, "dryRun")
        \o CallPOST("/bet", "Bet: Create", "object")

BetCancel(id) ==
    Call("POST", "/bet/cancel/" \o PathEscape(id), "Bet: Cancel",
         POSTSentinels, "none", TRUE)

-----------------------------------------------------------------------------
(* MarketService. *)

allowedMarketMarketsSort ==
    <<"created-time", "updated-time", "last-bet-time", "last-comment-time">>

allowedMarketSearchSort ==
    <<"newest", "score", "daily-score", "freshness-score", "24-hour-vol",
      "most-popular", "liquidity", "subsidy", "last-updated", "close-date",
      "resolve-date", "random", "bounty-amount", "prob-descending",
      "prob-ascending">>

allowedMarketSearchFilter ==
    <<"all", "open", "closed", "resolved", "closing-this-month",
      "closing-next-month">>

allowedMarketSearchContractType ==
    <<"ALL", "BINARY", "MULTIPLE_CHOICE", "FREE-RESPONSE", "PSEUDO-NUMERIC",
      "BOUNTIED_QUESTION", "STONK", "POLL", "NUMBER">>

MarketMarkets(limit, sort, order, before, userID, groupID) ==
    LimitSteps(limit, "Market: Markets(limit)")
        \o EnumSteps(sort, "sort", allowedMarketMarketsSort, "Market: Markets(sort)")
        \o EnumSteps(order, "order", <<"asc", "desc">>, "Market: Markets(order)")
        \o StrSteps(before, "before")
        \o StrSteps(userID, "userID")
        \o StrSteps(groupID, "groupID")
        \o CallGET("/markets", "Market: Markets", "array")

MarketMarket(id) ==
    CallGET("/market/" \o PathEscape(id), "Market: Market", "object")

MarketPositions(id) ==
    CallGET("/market/" \o PathEscape(id) \o "/positions",
               "Market: Positions", "array")

MarketSlug(slug) ==
    CallGET("/slug/" \o PathEscape(slug), "Market: Slug", "object")

MarketSearch(term, sort, filter, contractType, topicSlug, creatorID, limit, offset) ==
    << Set(term, term) >>
        \o EnumSteps(sort, "sort", allowedMarketSearchSort, "Market: Search(sort)")
        \o EnumSteps(filter, "filter", allowedMarketSearchFilter,
                     "Market: Search(filter)")
        \o EnumSteps(contractType, "contractType",
                     allowedMarketSearchContractType, "Market: Search(contractType)")
        \o StrSteps(topicSlug, "topicSlug")
        \o StrSteps(creatorID, "creatorId")
        \o LimitSteps(limit, "Market: Search(limit)")
        \o OffsetSteps(offset, "Market: Search(offset)")
        \o CallGET("/search-markets", "Market: Search", "array")

\* MarketService.createMarket(params)
createMarket ==
    Call("POST", "/market", "Market: createMarket", NoSentinels, "object", FALSE)

\* A closeTime that is sent without the comparison with the clock.
CloseTimeSteps_NoCheck(closeTime, reading, ctx) ==
    IF closeTime # Nil
    THEN << ReadClock, Set("closeTime", UnixMilli(closeTime[1])) >>
    ELSE <<>>

\* if closeTime != nil { must not be past; params["closeTime"] = ms (native) }
CloseTimeSteps(closeTime, reading, ctx) ==
    IF closeTime # Nil
    THEN << ReadClock,
            Check(IF After(reading, closeTime[1])
                  THEN << ctx \o ": closeTime cannot be in the past" >>
                  ELSE NoErr),
            Set("closeTime", UnixMilli(closeTime[1])) >>
    ELSE <<>>

VisibilitySteps(visibility, ctx) ==
    EnumSteps(visibility, "visibility", <<"public", "unlisted">>, ctx)

\* if p != nil { params[key] = *p }, the value kept native
NativeSteps(p, key) == IF p # Nil THEN << Set(key, p[1]) >> ELSE <<>>

\* CreateBinary with the check of initialProb made on the way back.
MarketCreateBinary_CheckAfterRequest(question, initialProb, description, closeTime, visibility, extraLiquidity, reading) ==
    << Set("outcomeType", "BINARY"),
       Set("question", question),
       Set("initialProb", initialProb) >>
        \o NativeSteps(description, "description")
        \o CloseTimeSteps(closeTime, reading, "Market: CreateBinary")
        \o VisibilitySteps(visibility, "Market: CreateBinary")
        \o NativeSteps(extraLiquidity, "extraLiquidity")
        \o << createMarket[1],
              CheckWrap("Market: CreateBinary",
                        checkInRange(initialProb, MinInitialProb, MaxInitialProb)),
              createMarket[2] >>

\* CreateBinary with initialProb checked against [0, 100].
MarketCreateBinary_Percent(question, initialProb, description, closeTime, visibility, extraLiquidity, reading) ==
    << CheckWrap("Market: CreateBinary",
                 checkInRange(initialProb, MinInitialProb - 1, MaxInitialProb + 1)),
       Set("outcomeType", "BINARY"),
       Set("question", question),
       Set("initialProb", initialProb) >>
        \o NativeSteps(description, "description")
        \o CloseTimeSteps(closeTime, reading, "Market: CreateBinary")
        \o VisibilitySteps(visibility, "Market: CreateBinary")
        \o NativeSteps(extraLiquidity, "extraLiquidity")
        \o createMarket

MarketCreateBinary(question, initialProb, description, closeTime, visibility, extraLiquidity, reading) ==
    << CheckWrap("Market: CreateBinary",
                 checkInRange(initialProb, MinInitialProb, MaxInitialProb)),
       Set("outcomeType", "BINARY"),
       Set("question", question),
       Set("initialProb", initialProb) >>
        \o NativeSteps(description, "description")
        \o CloseTimeSteps(closeTime, reading, "Market: CreateBinary")
        \o VisibilitySteps(visibility, "Market: CreateBinary")
        \o NativeSteps(extraLiquidity, "extraLiquidity")
        \o createMarket

\* CreatePseudoNumeric with initialValue checked against [min, max].
MarketCreatePseudoNumeric_Inclusive(question, min, max, initialValue, isLogScale, description, closeTime, visibility, extraLiquidity, reading) ==
    << CheckWrap("Market: CreatePseudoNumeric",
                 checkInRange(initialValue, min, max)),
       Set("outcomeType", "PSEUDO_NUMERIC"),
       Set("question", question),
       Set("min", min),
       Set("max", max),
       Set("initialValue", initialValue),
       Set("isLogScale", isLogScale) >>
        \o NativeSteps(description, "description")
        \o CloseTimeSteps(closeTime, reading, "Market: CreatePseudoNumeric")
        \o VisibilitySteps(visibility, "Market: CreatePseudoNumeric")
        \o NativeSteps(extraLiquidity, "extraLiquidity")
        \o createMarket

MarketCreatePseudoNumeric(question, min, max, initialValue, isLogScale, description, closeTime, visibility, extraLiquidity, reading) ==
    << CheckWrap("Market: CreatePseudoNumeric",
                 checkInRange(initialValue, WrapInt(min + 1), WrapInt(max - 1))),
       Set("outcomeType", "PSEUDO_NUMERIC"),
       Set("question", question),
       Set("min", min),
       Set("max", max),
       Set("initialValue", initialValue),
       Set("isLogScale", isLogScale) >>
        \o NativeSteps(description, "description")
        \o CloseTimeSteps(closeTime, reading, "Market: CreatePseudoNumeric")
        \o VisibilitySteps(visibility, "Market: CreatePseudoNumeric")
        \o NativeSteps(extraLiquidity, "extraLiquidity")
        \o createMarket

MarketCreatePoll(question, answers, description, closeTime, visibility, reading) ==
    << Check(IF Len(answers) < 2
             THEN <<"Market: CreatePoll: at least two answers are required">>
             ELSE NoErr),
       Set("outcomeType", "POLL"),
       Set("question", question),
       Set("answers", answers) >>
        \o NativeSteps(description, "description")
        \o CloseTimeSteps(closeTime, reading, "Market: CreatePoll")
        \o VisibilitySteps(visibility, "Market: CreatePoll")
        \o createMarket

MarketCreateBountiedQuestion(question, totalBounty, description, closeTime, visibility, reading) ==
    << Check(IF totalBounty <= 0
             THEN <<"Market: CreateBountiedQuestion: totalBounty must be greater than zero">>
             ELSE NoErr),
       Set("outcomeType", "BOUNTIED_QUESTION"),
       Set("question", question),
       Set("totalBounty", totalBounty) >>
        \o NativeSteps(description, "description")
        \o CloseTimeSteps(closeTime, reading, "Market: CreateBountiedQuestion")
        \o VisibilitySteps(visibility, "Market: CreateBountiedQuestion")
        \o createMarket

MarketAnswer(id, text) ==
    << Set("text", text) >>
        \o CallPOST("/market/" \o PathEscape(id) \o "/answer", "Market: Answer", "none")

\* if amount < 0 { return error }
AmountCheck(amount, ctx) ==
    Check(IF amount < 0
          THEN << ctx \o "(amount): invalid value: %f must be >0" >>
          ELSE NoErr)

MarketAddLiquidity(id, amount) ==
    << AmountCheck(amount, "Market: AddLiquidity"),
       Set("amount", FormatFloat(amount)) >>
        \o CallPOST("/market/" \o PathEscape(id) \o "/add-liquidity",
                "Market: AddLiquidity", "object")

MarketAddBounty(id, amount) ==
    << AmountCheck(amount, "Market: AddBounty"),
       Set("amount", FormatFloat(amount)) >>
        \o CallPOST("/market/" \o PathEscape(id) \o "/add-bounty",
                "Market: AddBounty", "object")

MarketAwardBounty(id, amount, commentID) ==
    << AmountCheck(amount, "Market: AwardBounty"),
       Set("amount", FormatFloat(amount)),
       Set("commentId", commentID) >>
        \o CallPOST("/market/" \o PathEscape(id) \o "/award-bounty",
                "Market: AwardBounty", "object")

MarketClose(id, closeTime, reading) ==
    (IF closeTime # Nil
     THEN << ReadClock,
             Check(IF After(reading, closeTime[1])
                   THEN <<"Market: Close(closeTime): cannot close a market in the past">>
                   ELSE NoErr),
             Set("closeTime", FormatInt(UnixMilli(closeTime[1]))) >>
     ELSE <<>>)
        \o CallPOST("/market/" \o PathEscape(id) \o "/close", "Market: Close", "none")

MarketGroup(id, groupID, remove) ==
    << Set("groupId", groupID) >>
        \o BoolSteps(remove, "remove")
        \o CallPOST("/market/" \o PathEscape(id) \o "/group", "Market: Group", "none")

\* MarketService.resolveMarket(id, params)
resolveMarket(id) ==
    Call("POST", "/market/" \o PathEscape(id) \o "/resolve",
         "Market: resolveMarket", NoSentinels, "object", FALSE)

MarketResolveBinary(id, outcome, probabilityInt) ==
    << CheckWrap("Market: ResolveBinary",
                 checkOneOf(outcome, <<"YES", "NO", "MKT", "CANCEL">>)) >>
        \o (IF outcome = "MKT" /\ probabilityInt # Nil
            THEN << CheckWrap("Market: ResolveBinary",
                              checkInRange(probabilityInt[1], 0, MaxProbabilityInt)) >>
            ELSE <<>>)
        \o << Set("outcome", outcome) >>
        \o NativeSteps(probabilityInt, "probabilityInt")
        \o resolveMarket(id)

\* totalPct += resolution.Pct, over the list
RECURSIVE SumPct(_)
SumPct(rs) == IF rs = <<>> THEN 0 ELSE Head(rs).Pct + SumPct(Tail(rs))

\* resolutions is <<>> for a nil slice and <<list>> otherwise.
SliceLen(slice) == IF slice = Nil THEN 0 ELSE Len(slice[1])

\* ResolveFreeResponse with the total checked by totalPct > 100.
MarketResolveFreeResponse_AtMost100(id, outcome, resolutions) ==
    << Check(IF checkOneOf(outcome, <<"MKT", "CANCEL">>) # NoErr
                /\ outcome = "MKT" /\ resolutions = Nil
             THEN <<"Market: ResolveFreeResponse: outcome cannot be a specific answer without resolutions">>
             ELSE NoErr),
       Set("outcome", outcome) >>
        \o (IF outcome = "MKT" /\ SliceLen(resolutions) > 0
            THEN << Check(IF SumPct(resolutions[1]) > TotalPct
                          THEN <<"Market: ResolveFreeResponse: total percentages of resolutions must add up to 100">>
                          ELSE NoErr),
                    Set("resolutions", resolutions[1]) >>
            ELSE <<>>)
        \o resolveMarket(id)

MarketResolveFreeResponse(id, outcome, resolutions) ==
    << Check(IF checkOneOf(outcome, <<"MKT", "CANCEL">>) # NoErr
                /\ outcome = "MKT" /\ resolutions = Nil
             THEN <<"Market: ResolveFreeResponse: outcome cannot be a specific answer without resolutions">>
             ELSE NoErr),
       Set("outcome", outcome) >>
        \o (IF outcome = "MKT" /\ SliceLen(resolutions) > 0
            THEN << Check(IF SumPct(resolutions[1]) # TotalPct
                          THEN <<"Market: ResolveFreeResponse: total percentages of resolutions must add up to 100">>
                          ELSE NoErr),
                    Set("resolutions", resolutions[1]) >>
            ELSE <<>>)
        \o resolveMarket(id)

MarketResolveNumeric(id, outcome, val, probabilityInt) ==
    << CheckWrap("Market: ResolveNumeric", checkOneOf(outcome, <<"CANCEL">>)) >>
        \o (IF val # Nil /\ probabilityInt # Nil
            THEN << CheckWrap("Market: ResolveNumeric",
                              checkInRange(probabilityInt[1], 0, MaxProbabilityInt)) >>
            ELSE <<>>)
        \o << Set("outcome", outcome) >>
        \o (IF val # Nil THEN << SetFloat("value", val[1]) >> ELSE <<>>)
        \o NativeSteps(probabilityInt, "probabilityInt")
        \o resolveMarket(id)

MarketSell(id, outcome, shares, answerID) ==
    EnumSteps(outcome, "outcome", <<"YES", "NO">>, "Market: Sell(outcome)")
        \o (IF shares # Nil
            THEN << Check(IF shares[1] <= 0
                          THEN <<"Market: Sell(shares): invalid value: %f, value must be >0">>
                          ELSE NoErr),
                    Set("shares", FormatFloat(shares[1])) >>
            ELSE <<>>)
        \o StrSteps(answerID, "answerId")
        \o CallPOST("/market/" \o PathEscape(id) \o "/sell", "Market: Sell", "object")

-----------------------------------------------------------------------------
(* More argument values. *)

Terms == {"cats", "limit", "offset", "sort"}

\* Every allowed value of an enumerated parameter, and one that is not
\* allowed.
MarketsSorts == Range(allowedMarketMarketsSort) \cup {"newest"}

SearchSorts == Range(allowedMarketSearchSort) \cup {"created-time"}

SearchFilters == Range(allowedMarketSearchFilter) \cup {"ALL"}

SearchContractTypes == Range(allowedMarketSearchContractType) \cup {"all"}

Kinds == {"open-limit", "closed-limit"}

\* initialProb: around both ends of [MinInitialProb, MaxInitialProb]
InitialProbs ==
    {MinInitialProb - 1, MinInitialProb, MaxInitialProb, MaxInitialProb + 1}

\* probabilityInt: around both ends of [0, MaxProbabilityInt]
ProbabilityInts == {0 - 1, 0, MaxProbabilityInt, MaxProbabilityInt + 1}

\* The ints CreatePseudoNumeric is called with: -1, 0, 1, 5, 10 and the two
\* extreme values of an int.
PNVals == {MinInt, 0 - 1, 0, 1, 5, 10, MaxInt}

\* Pct values of a resolution.
PctVals == {0 - 1, 50, 99, 100, 101}

\* A resolutions slice has at most MaxResolutions elements.
MaxResolutions == 2

\* The lists of length n over Pct values, element i naming answer i - 1.
ResolutionLists(n) ==
    { [i \in 1..n |-> [Answer |-> i - 1, Pct |-> f[i]]] : f \in [1..n -> PctVals] }

\* nil, or a slice of 0..MaxResolutions resolutions.
ResolutionSlices ==
    {Nil} \cup { Some(l) : l \in UNION { ResolutionLists(n) : n \in 0..MaxResolutions } }

AnswerLists == { <<>>, <<"a">>, <<"a", "b">>, <<"a", "b", "c">> }

ToIDLists == { <<>>, <<"u1">>, <<"u1", "u2">> }

Bounties == {0 - 1, 0, 1}

\* The arguments checkInRange is called with: the ranges the program uses,
\* and every small range, empty ones included.
RangeSpan == 1

CheckRanges ==
    { <<0, MaxLimit>>, <<MinInitialProb, MaxInitialProb>>, <<0, MaxProbabilityInt>> }
        \cup (((0 - RangeSpan)..RangeSpan) \X ((0 - RangeSpan)..RangeSpan))

CheckValues(r) ==
    IF r[1] <= r[2] THEN (r[1] - 2)..(r[2] + 2) ELSE (r[2] - 2)..(r[1] + 2)

\* The arguments checkOneOf is called with.
AllowedLists ==
    { <<>>, <<"open-limit">>, <<"asc", "desc">>, <<"YES", "NO">>,
      <<"YES", "NO", "MKT", "CANCEL">>, <<"public", "unlisted">>,
      allowedMarketMarketsSort, allowedMarketSearchSort,
      allowedMarketSearchFilter, allowedMarketSearchContractType }

EnumValues == UNION { Range(l) : l \in AllowedLists } \cup {"", "bogus"}

\* What Client.GET and Client.POST are called with directly.
Endpoints == {"/me", "/bet"}

QueryMaps == { EmptyMap, Put(EmptyMap, "limit", "0") }

\* nil, a map[string]string, and maps that hold a float64.
Bodies ==
    { Nil,
      Some([map |-> EmptyMap, floats |-> {}]),
      Some([map |-> Put(EmptyMap, "contractId", "a/b"), floats |-> {}]) }
        \cup { Some([map |-> Put(EmptyMap, "amount", f), floats |-> {"amount"}]) :
                   f \in Floats }

-----------------------------------------------------------------------------
(* The state machine. *)

\* The goroutines that share the Client.
Callers == 1..NumCallers

\* A caller that has no call in progress.
IdleCall ==
    [pc |-> "idle", op |-> "none", args |-> Nil, all |-> <<>>, steps |-> <<>>,
     resp |-> Nil, st |-> Start]

Init ==
    /\ client \in { NewClient(k) : k \in APIKeys }
    /\ calls = [c \in Callers |-> IdleCall]
    /\ heap = [c \in Callers |-> EmptyMap]
    /\ pc = "idle"
    /\ op = "none"
    /\ args = Nil
    /\ now = Nil
    /\ trace = <<>>
    /\ request = Nil
    /\ response = Nil
    /\ err = NoErr
    /\ value = Nil

\* The caller invokes operation name with arguments a; the method executes
\* steps and returns.  clock is <<reading>>, what time.Now() returns during
\* the call, for the operations that consult the clock, and <<>> for the rest.
Invoke(name, a, steps, clock, resp) ==
    \E st \in { Exec(steps, Start, client, resp) } :
        /\ pc' = "done"
        /\ op' = name
        /\ args' = a
        /\ now' = clock
        /\ trace' = st.trace
        /\ request' = st.request
        /\ response' = IF st.request # Nil THEN Some(resp) ELSE Nil
        /\ err' = st.err
        /\ value' = st.value
        /\ UNCHANGED <<client, calls, heap>>

\* The caller has its result and is ready for the next call.
Return ==
    /\ pc = "done"
    /\ pc' = "idle"
    /\ op' = "none"
    /\ args' = Nil
    /\ now' = Nil
    /\ trace' = <<>>
    /\ request' = Nil
    /\ response' = Nil
    /\ err' = NoErr
    /\ value' = Nil
    /\ UNCHANGED <<client, calls, heap>>

\* A direct call of a validation primitive: no request, the error is the result.
Apply(name, a, e) ==
    /\ pc' = "done"
    /\ op' = name
    /\ args' = a
    /\ err' = e
    /\ now' = Nil
    /\ trace' = <<"check">>
    /\ request' = Nil
    /\ response' = Nil
    /\ value' = Nil
    /\ UNCHANGED <<client, calls, heap>>

\* A direct call of Client.GET or Client.POST: r is what it returns, the
\* bytes of the answer beside the error.
Transport(name, a, r, resp) ==
    /\ pc' = "done"
    /\ op' = name
    /\ args' = a
    /\ now' = Nil
    /\ trace' = IF r.request # Nil THEN <<"request">> ELSE <<"marshal">>
    /\ request' = r.request
    /\ response' = IF r.request # Nil THEN Some(resp) ELSE Nil
    /\ err' = r.err
    /\ value' = IF r.err = NoErr THEN Some([bytes |-> r.bytes]) ELSE Nil
    /\ UNCHANGED <<client, calls, heap>>

CallClientGET ==
    /\ pc = "idle"
    /\ \E endpoint \in Endpoints, params \in QueryMaps, resp \in Responses :
        Transport("Client.GET", [endpoint |-> endpoint, params |-> params],
                  GET(client, endpoint, params, resp), resp)

CallClientPOST ==
    /\ pc = "idle"
    /\ \E endpoint \in Endpoints, body \in Bodies, resp \in Responses :
        Transport("Client.POST", [endpoint |-> endpoint, body |-> body],
                  POST(client, endpoint, body, resp), resp)

CallCheckInRange ==
    /\ pc = "idle"
    /\ \E r \in CheckRanges : \E v \in CheckValues(r) :
        Apply("checkInRange", [value |-> v, min |-> r[1], max |-> r[2]],
              checkInRange(v, r[1], r[2]))

CallCheckOneOf ==
    /\ pc = "idle"
    /\ \E allowed \in AllowedLists, v \in EnumValues :
        Apply("checkOneOf", [value |-> v, allowed |-> allowed],
              checkOneOf(v, allowed))

CallUserUsers ==
    /\ pc = "idle"
    /\ \E limit \in Opt(LimitVals), before \in Opt(UserCursors), resp \in Responses :
        /\ Present(<<limit, before>>) <= MaxPresent
        /\ Invoke("User.Users", [limit |-> limit, before |-> before],
                  UserUsers(limit, before), Nil, resp)

CallUserUser ==
    /\ pc = "idle"
    /\ \E username \in Ids, resp \in Responses :
        Invoke("User.User", [username |-> username], UserUser(username), Nil, resp)

CallUserUserLite ==
    /\ pc = "idle"
    /\ \E username \in Ids, resp \in Responses :
        Invoke("User.UserLite", [username |-> username], UserUserLite(username),
               Nil, resp)

CallUserID ==
    /\ pc = "idle"
    /\ \E id \in Ids, resp \in Responses :
        Invoke("User.ID", [id |-> id], UserID(id), Nil, resp)

CallUserIDLite ==
    /\ pc = "idle"
    /\ \E id \in Ids, resp \in Responses :
        Invoke("User.IDLite", [id |-> id], UserIDLite(id), Nil, resp)

CallUserMe ==
    /\ pc = "idle"
    /\ \E resp \in Responses : Invoke("User.Me", Nil, UserMe, Nil, resp)

CallGroupGroups ==
    /\ pc = "idle"
    /\ \E beforeTime \in Opt(Times), availableToUserID \in Opt(Ids),
       resp \in Responses :
        /\ Present(<<beforeTime, availableToUserID>>) <= MaxPresent
        /\ Invoke("Group.Groups",
                  [beforeTime |-> beforeTime,
                   availableToUserID |-> availableToUserID],
                  GroupGroups(beforeTime, availableToUserID), Nil, resp)

CallGroupGroup ==
    /\ pc = "idle"
    /\ \E slug \in Ids, resp \in Responses :
        Invoke("Group.Group", [slug |-> slug], GroupGroup(slug), Nil, resp)

CallGroupID ==
    /\ pc = "idle"
    /\ \E id \in Ids, resp \in Responses :
        Invoke("Group.ID", [id |-> id], GroupID(id), Nil, resp)

CallManaManagrams ==
    /\ pc = "idle"
    /\ \E toID \in Opt(Ids), fromID \in Opt(Ids), limit \in Opt(LimitVals),
       before \in Opt(Times), after \in Opt(Times), resp \in Responses :
        /\ Present(<<toID, fromID, limit, before, after>>) <= MaxPresent
        /\ Invoke("Mana.Managrams",
                  [toID |-> toID, fromID |-> fromID, limit |-> limit,
                   before |-> before, after |-> after],
                  ManaManagrams(toID, fromID, limit, before, after), Nil, resp)

CallManaManagram ==
    /\ pc = "idle"
    /\ \E toIDs \in ToIDLists, amount \in Floats, message \in Opt(Texts),
       resp \in Responses :
        Invoke("Mana.Managram",
               [toIDs |-> toIDs, amount |-> amount, message |-> message],
               ManaManagram(toIDs, amount, message), Nil, resp)

CallCommentComments ==
    /\ pc = "idle"
    /\ \E contractID \in Opt(Ids), contractSlug \in Opt(Ids),
       limit \in Opt(LimitVals), offset \in Opt(OffsetVals),
       userID \in Opt(Ids), resp \in Responses :
        /\ Present(<<contractID, contractSlug, limit, offset, userID>>) <= MaxPresent
        /\ Invoke("Comment.Comments",
                  [contractID |-> contractID, contractSlug |-> contractSlug,
                   limit |-> limit, offset |-> offset, userID |-> userID],
                  CommentComments(contractID, contractSlug, limit, offset, userID),
                  Nil, resp)

CallCommentComment ==
    /\ pc = "idle"
    /\ \E id \in Ids, content \in Texts, resp \in Responses :
        Invoke("Comment.Comment", [id |-> id, content |-> content],
               CommentComment(id, content), Nil, resp)

CallCommentCommentHTML ==
    /\ pc = "idle"
    /\ \E id \in Ids, content \in Texts, resp \in Responses :
        Invoke("Comment.CommentHTML", [id |-> id, content |-> content],
               CommentCommentHTML(id, content), Nil, resp)

CallCommentCommentMarkdown ==
    /\ pc = "idle"
    /\ \E id \in Ids, content \in Texts, resp \in Responses :
        Invoke("Comment.CommentMarkdown", [id |-> id, content |-> content],
               CommentCommentMarkdown(id, content), Nil, resp)

CallBetBets ==
    /\ pc = "idle"
    /\ \E userID \in Opt(Ids), username \in Opt(Ids), contractID \in Opt(Ids),
       contractSlug \in Opt(Ids), limit \in Opt(LimitVals),
       before \in Opt(Cursors), after \in Opt(Cursors),
       beforeTime \in Opt(Times), afterTime \in Opt(Times),
       kinds \in Opt(Kinds), order \in Opt(Orders), resp \in Responses :
        /\ Present(<<userID, username, contractID, contractSlug, limit, before,
                     after, beforeTime, afterTime, kinds, order>>) <= MaxPresent
        /\ Invoke("Bet.Bets",
                  [userID |-> userID, username |-> username,
                   contractID |-> contractID, contractSlug |-> contractSlug,
                   limit |-> limit, before |-> before, after |-> after,
                   beforeTime |-> beforeTime, afterTime |-> afterTime,
                   kinds |-> kinds, order |-> order],
                  BetBets(userID, username, contractID, contractSlug, limit,
                          before, after, beforeTime, afterTime, kinds, order),
                  Nil, resp)

CallBetCreate ==
    /\ pc = "idle"
    /\ \E amount \in Amounts, contractID \in Ids, outcome \in Opt(Outcomes),
       limitProb \in Opt(Probs), expiresAt \in Opt(Times),
       dryRun \in Opt(BOOLEAN), reading \in Times, resp \in Responses :
        /\ Present(<<outcome, limitProb, expiresAt, dryRun>>) <= MaxPresent
        /\ Invoke("Bet.Create",
                  [amount |-> amount, contractID |-> contractID,
                   outcome |-> outcome, limitProb |-> limitProb,
                   expiresAt |-> expiresAt, dryRun |-> dryRun],
                  BetCreate(amount, contractID, outcome, limitProb, expiresAt,
                            dryRun, reading),
                  Some(reading), resp)

CallBetCancel ==
    /\ pc = "idle"
    /\ \E id \in Ids, resp \in Responses :
        Invoke("Bet.Cancel", [id |-> id], BetCancel(id), Nil, resp)

CallMarketMarkets ==
    /\ pc = "idle"
    /\ \E limit \in Opt(LimitVals), sort \in Opt(MarketsSorts),
       order \in Opt(Orders), before \in Opt(Cursors), userID \in Opt(Ids),
       groupID \in Opt(Ids), resp \in Responses :
        /\ Present(<<limit, sort, order, before, userID, groupID>>) <= MaxPresent
        /\ Invoke("Market.Markets",
                  [limit |-> limit, sort |-> sort, order |-> order,
                   before |-> before, userID |-> userID, groupID |-> groupID],
                  MarketMarkets(limit, sort, order, before, userID, groupID),
                  Nil, resp)

CallMarketMarket ==
    /\ pc = "idle"
    /\ \E id \in Ids, resp \in Responses :
        Invoke("Market.Market", [id |-> id], MarketMarket(id), Nil, resp)

CallMarketPositions ==
    /\ pc = "idle"
    /\ \E id \in Ids, resp \in Responses :
        Invoke("Market.Positions", [id |-> id], MarketPositions(id), Nil, resp)

CallMarketSlug ==
    /\ pc = "idle"
    /\ \E slug \in Ids, resp \in Responses :
        Invoke("Market.Slug", [slug |-> slug], MarketSlug(slug), Nil, resp)

\* The optional arguments Search is called with.
SearchArgs ==
    { a \in [sort : Opt(SearchSorts), filter : Opt(SearchFilters),
              contractType : Opt(SearchContractTypes), topicSlug : Opt(Ids),
              creatorID : Opt(Ids), limit : Opt(LimitVals),
              offset : Opt(OffsetVals)] :
          Present(<<a.sort, a.filter, a.contractType, a.topicSlug, a.creatorID,
                    a.limit, a.offset>>) <= MaxPresent - 1 }

CallMarketSearch ==
    /\ pc = "idle"
    /\ \E term \in Terms, a \in SearchArgs, resp \in Responses :
        Invoke("Market.Search",
               [term |-> term, sort |-> a.sort, filter |-> a.filter,
                contractType |-> a.contractType, topicSlug |-> a.topicSlug,
                creatorID |-> a.creatorID, limit |-> a.limit, offset |-> a.offset],
               MarketSearch(term, a.sort, a.filter, a.contractType, a.topicSlug,
                            a.creatorID, a.limit, a.offset),
               Nil, resp)

CallMarketCreateBinary ==
    /\ pc = "idle"
    /\ \E question \in Texts, initialProb \in InitialProbs,
       description \in Opt(Texts), closeTime \in Opt(Times),
       visibility \in Opt(Visibilities), extraLiquidity \in Opt({50}),
       reading \in Times, resp \in Responses :
        /\ Present(<<description, closeTime, visibility, extraLiquidity>>) <= MaxPresent
        /\ Invoke("Market.CreateBinary",
                  [question |-> question, initialProb |-> initialProb,
                   description |-> description, closeTime |-> closeTime,
                   visibility |-> visibility, extraLiquidity |-> extraLiquidity],
                  MarketCreateBinary(question, initialProb, description,
                                     closeTime, visibility, extraLiquidity, reading),
                  Some(reading), resp)

CallMarketCreatePseudoNumeric ==
    /\ pc = "idle"
    /\ \E question \in Texts, min \in PNVals, max \in PNVals,
       initialValue \in PNVals, isLogScale \in BOOLEAN,
       description \in Opt(Texts), closeTime \in Opt(Times),
       visibility \in Opt(Visibilities), extraLiquidity \in Opt({50}),
       reading \in Times, resp \in Responses :
        /\ Present(<<description, closeTime, visibility, extraLiquidity>>) <= MaxPresent - 1
        /\ Invoke("Market.CreatePseudoNumeric",
                  [question |-> question, min |-> min, max |-> max,
                   initialValue |-> initialValue, isLogScale |-> isLogScale,
                   description |-> description, closeTime |-> closeTime,
                   visibility |-> visibility, extraLiquidity |-> extraLiquidity],
                  MarketCreatePseudoNumeric(question, min, max, initialValue,
                                            isLogScale, description, closeTime,
                                            visibility, extraLiquidity, reading),
                  Some(reading), resp)

CallMarketCreatePoll ==
    /\ pc = "idle"
    /\ \E question \in Texts, answers \in AnswerLists, description \in Opt(Texts),
       closeTime \in Opt(Times), visibility \in Opt(Visibilities),
       reading \in Times, resp \in Responses :
        /\ Present(<<description, closeTime, visibility>>) <= MaxPresent
        /\ Invoke("Market.CreatePoll",
                  [question |-> question, answers |-> answers,
                   description |-> description, closeTime |-> closeTime,
                   visibility |-> visibility],
                  MarketCreatePoll(question, answers, description, closeTime,
                                   visibility, reading),
                  Some(reading), resp)

CallMarketCreateBountiedQuestion ==
    /\ pc = "idle"
    /\ \E question \in Texts, totalBounty \in Bounties, description \in Opt(Texts),
       closeTime \in Opt(Times), visibility \in Opt(Visibilities),
       reading \in Times, resp \in Responses :
        /\ Present(<<description, closeTime, visibility>>) <= MaxPresent
        /\ Invoke("Market.CreateBountiedQuestion",
                  [question |-> question, totalBounty |-> totalBounty,
                   description |-> description, closeTime |-> closeTime,
                   visibility |-> visibility],
                  MarketCreateBountiedQuestion(question, totalBounty, description,
                                               closeTime, visibility, reading),
                  Some(reading), resp)

CallMarketAnswer ==
    /\ pc = "idle"
    /\ \E id \in Ids, text \in Texts, resp \in Responses :
        Invoke("Market.Answer", [id |-> id, text |-> text],
               MarketAnswer(id, text), Nil, resp)

CallMarketAddLiquidity ==
    /\ pc = "idle"
    /\ \E id \in Ids, amount \in Amounts, resp \in Responses :
        Invoke("Market.AddLiquidity", [id |-> id, amount |-> amount],
               MarketAddLiquidity(id, amount), Nil, resp)

CallMarketAddBounty ==
    /\ pc = "idle"
    /\ \E id \in Ids, amount \in Amounts, resp \in Responses :
        Invoke("Market.AddBounty", [id |-> id, amount |-> amount],
               MarketAddBounty(id, amount), Nil, resp)

CallMarketAwardBounty ==
    /\ pc = "idle"
    /\ \E id \in Ids, amount \in Amounts, commentID \in Ids, resp \in Responses :
        Invoke("Market.AwardBounty",
               [id |-> id, amount |-> amount, commentID |-> commentID],
               MarketAwardBounty(id, amount, commentID), Nil, resp)

CallMarketClose ==
    /\ pc = "idle"
    /\ \E id \in Ids, closeTime \in Opt(Times), reading \in Times,
       resp \in Responses :
        Invoke("Market.Close", [id |-> id, closeTime |-> closeTime],
               MarketClose(id, closeTime, reading), Some(reading), resp)

CallMarketGroup ==
    /\ pc = "idle"
    /\ \E id \in Ids, groupID \in Ids, remove \in Opt(BOOLEAN), resp \in Responses :
        Invoke("Market.Group", [id |-> id, groupID |-> groupID, remove |-> remove],
               MarketGroup(id, groupID, remove), Nil, resp)

CallMarketResolveBinary ==
    /\ pc = "idle"
    /\ \E id \in Ids, outcome \in Outcomes, probabilityInt \in Opt(ProbabilityInts),
       resp \in Responses :
        Invoke("Market.ResolveBinary",
               [id |-> id, outcome |-> outcome, probabilityInt |-> probabilityInt],
               MarketResolveBinary(id, outcome, probabilityInt), Nil, resp)

CallMarketResolveFreeResponse ==
    /\ pc = "idle"
    /\ \E id \in Ids, outcome \in Outcomes, resolutions \in ResolutionSlices,
       resp \in Responses :
        Invoke("Market.ResolveFreeResponse",
               [id |-> id, outcome |-> outcome, resolutions |-> resolutions],
               MarketResolveFreeResponse(id, outcome, resolutions), Nil, resp)

CallMarketResolveNumeric ==
    /\ pc = "idle"
    /\ \E id \in Ids, outcome \in Outcomes, val \in Opt(Floats),
       probabilityInt \in Opt(ProbabilityInts), resp \in Responses :
        Invoke("Market.ResolveNumeric",
               [id |-> id, outcome |-> outcome, value |-> val,
                probabilityInt |-> probabilityInt],
               MarketResolveNumeric(id, outcome, val, probabilityInt), Nil, resp)

CallMarketSell ==
    /\ pc = "idle"
    /\ \E id \in Ids, outcome \in Opt(Outcomes), shares \in Opt(Amounts),
       answerID \in Opt(Ids), resp \in Responses :
        Invoke("Market.Sell",
               [id |-> id, outcome |-> outcome, shares |-> shares,
                answerID |-> answerID],
               MarketSell(id, outcome, shares, answerID), Nil, resp)

Next ==
    \/ CallClientGET
    \/ CallClientPOST
    \/ CallCheckInRange
    \/ CallCheckOneOf
    \/ CallUserUsers
    \/ CallUserUser
    \/ CallUserUserLite
    \/ CallUserID
    \/ CallUserIDLite
    \/ CallUserMe
    \/ CallGroupGroups
    \/ CallGroupGroup
    \/ CallGroupID
    \/ CallManaManagrams
    \/ CallManaManagram
    \/ CallCommentComments
    \/ CallCommentComment
    \/ CallCommentCommentHTML
    \/ CallCommentCommentMarkdown
    \/ CallBetBets
    \/ CallBetCreate
    \/ CallBetCancel
    \/ CallMarketMarkets
    \/ CallMarketMarket
    \/ CallMarketPositions
    \/ CallMarketSlug
    \/ CallMarketSearch
    \/ CallMarketCreateBinary
    \/ CallMarketCreatePseudoNumeric
    \/ CallMarketCreatePoll
    \/ CallMarketCreateBountiedQuestion
    \/ CallMarketAnswer
    \/ CallMarketAddLiquidity
    \/ CallMarketAddBounty
    \/ CallMarketAwardBounty
    \/ CallMarketClose
    \/ CallMarketGroup
    \/ CallMarketResolveBinary
    \/ CallMarketResolveFreeResponse
    \/ CallMarketResolveNumeric
    \/ CallMarketSell
    \/ Return

Spec == Init /\ [][Next]_vars

-----------------------------------------------------------------------------
(* Several callers on one Client.  Each call executes the statements of its *)
(* method one at a time, interleaved with the statements of the others.     *)

\* The variables of the one-call-at-a-time machine.
sequential == <<pc, op, args, now, trace, request, response, err, value>>

\* The calls the concurrent callers make.
ConcurrentCalls ==
    { [op |-> "User.Users", args |-> [limit |-> l, before |-> Nil],
       steps |-> UserUsers(l, Nil)] : l \in {Nil, Some(0), Some(MaxLimit + 1)} }
        \cup
    { [op |-> "Comment.Comment", args |-> [id |-> "a/b", content |-> t],
       steps |-> CommentComment("a/b", t)] : t \in {"x", "y"} }
        \cup
    { [op |-> "Bet.Cancel", args |-> [id |-> "a/b"], steps |-> BetCancel("a/b")] }

\* What the network answers a concurrent call.
ConcurrentResponses ==
    { NetFail,
      [neterr |-> FALSE, readerr |-> FALSE, status |-> 200, body |-> "array"],
      [neterr |-> FALSE, readerr |-> FALSE, status |-> 404, body |-> "object"] }

\* One map for all calls, at package level.
MapOf_Package(c) == 1

\* The cell of the map a call of caller c works on: the method makes its own
\* at entry (params := make(map[string]string), body := map[string]string{}).
MapOf(c) == c

\* Caller c calls an operation: the method is entered and makes its map.
Begin(c) ==
    /\ calls[c].pc = "idle"
    /\ \E k \in ConcurrentCalls :
        /\ calls' = [calls EXCEPT ![c] =
                        [pc |-> "running", op |-> k.op, args |-> k.args,
                         all |-> k.steps, steps |-> k.steps, resp |-> Nil,
                         st |-> Start]]
        /\ heap' = [heap EXCEPT ![MapOf(c)] = EmptyMap]
    /\ UNCHANGED <<client, sequential>>

\* The call of caller c executes its next statement, on its map as it is
\* now, and returns if that was a return.
Advance(c) ==
    /\ calls[c].pc = "running"
    /\ \E resp \in ConcurrentResponses :
        LET k  == calls[c]
            s  == Head(k.steps)
            st == Step(s, [k.st EXCEPT !.params = heap[MapOf(c)]], client, resp)
        IN  /\ calls' = [calls EXCEPT ![c] =
                            [k EXCEPT !.st = st,
                                      !.steps = Tail(k.steps),
                                      !.resp = IF s.kind = "request"
                                               THEN Some(resp) ELSE k.resp,
                                      !.pc = IF st.returned \/ Tail(k.steps) = <<>>
                                             THEN "done" ELSE "running"]]
            /\ heap' = [heap EXCEPT ![MapOf(c)] = st.params]
    /\ UNCHANGED <<client, sequential>>

\* Caller c takes the result.
Collect(c) ==
    /\ calls[c].pc = "done"
    /\ calls' = [calls EXCEPT ![c] = IdleCall]
    /\ UNCHANGED <<client, heap, sequential>>

ConcurrentNext == \E c \in Callers : Begin(c) \/ Advance(c) \/ Collect(c)

ConcurrentSpec == Init /\ [][ConcurrentNext]_vars

-----------------------------------------------------------------------------
(* The records of types.go and encoding/json on them. *)

\* A JSON value.  A number n stands for n / FloatDen.
JNull == <<"null">>

JBool(b) == <<"bool", b>>

JNum(n) == <<"number", n>>

JStr(s) == <<"string", s>>

JArr(seq) == <<"array", seq>>

JObj(f) == <<"object", f>>

\* The text of value j written with insignificant white space.
Spaced(j) == <<"spaced", j>>

IsSpaced(j) == j[1] = "spaced"

\* The value a text denotes.
Unspace(j) == IF IsSpaced(j) THEN j[2] ELSE j

\* The Go types of the fields.
KString == <<"string">>

KBool == <<"bool">>

\* int and int64
KInt == <<"int">>

KFloat == <<"float">>

\* json.RawMessage
KRaw == <<"raw">>

\* interface{}
KAny == <<"any">>

KPtr(elem) == <<"ptr", elem>>

KSlice(elem) == <<"slice", elem>>

KMap(elem) == <<"map", elem>>

KStruct(name) == <<"struct", name>>

\* The fields of each struct, embedded structs flattened as encoding/json
\* sees them (Txn's own Category hides the one of the embedded AnyTxnType):
\* <<Go name, JSON key, type, tagged omitempty, documented as optional or
\* nullable>>.
Fields(name) ==
    CASE name = "ProfitCached" ->
            << <<"Daily", "daily", KFloat, FALSE, FALSE>>,
               <<"Weekly", "weekly", KFloat, FALSE, FALSE>>,
               <<"Monthly", "monthly", KFloat, FALSE, FALSE>>,
               <<"AllTime", "allTime", KFloat, FALSE, FALSE>> >>
      [] name = "User" ->
            << <<"ID", "id", KString, FALSE, FALSE>>,
               <<"CreatedTime", "createdTime", KInt, FALSE, FALSE>>,
               <<"Name", "name", KString, FALSE, FALSE>>,
               <<"Username", "username", KString, FALSE, FALSE>>,
               <<"URL", "url", KString, FALSE, FALSE>>,
               <<"AvatarUrl", "avatarUrl", KPtr(KString), TRUE, TRUE>>,
               <<"Bio", "bio", KPtr(KString), TRUE, TRUE>>,
               <<"BannerUrl", "bannerUrl", KPtr(KString), TRUE, TRUE>>,
               <<"Website", "website", KPtr(KString), TRUE, TRUE>>,
               <<"TwitterHandle", "twitterHandle", KPtr(KString), TRUE, TRUE>>,
               <<"DiscordHandle", "discordHandle", KPtr(KString), TRUE, TRUE>>,
               <<"IsBot", "isBot", KPtr(KBool), TRUE, TRUE>>,
               <<"IsAdmin", "isAdmin", KPtr(KBool), TRUE, TRUE>>,
               <<"IsTrustworthy", "isTrustworthy", KPtr(KBool), TRUE, TRUE>>,
               <<"IsBannedFromPosting", "isBannedFromPosting", KPtr(KBool), TRUE, TRUE>>,
               <<"UserDeleted", "userDeleted", KPtr(KBool), TRUE, TRUE>>,
               <<"Balance", "balance", KFloat, FALSE, FALSE>>,
               <<"TotalDeposits", "totalDeposits", KFloat, FALSE, FALSE>>,
               <<"LastBetTime", "lastBetTime", KPtr(KInt), TRUE, TRUE>>,
               <<"CurrentBettingStreak", "currentBettingStreak", KPtr(KInt), TRUE, TRUE>>,
               <<"ProfitCached", "profitCached", KStruct("ProfitCached"), FALSE, FALSE>> >>
      [] name = "DisplayUser" ->
            << <<"ID", "id", KString, FALSE, FALSE>>,
               <<"Name", "name", KString, FALSE, FALSE>>,
               <<"Username", "username", KString, FALSE, FALSE>>,
               <<"AvatarURL", "avatarUrl", KPtr(KString), TRUE, TRUE>> >>
      [] name = "Group" ->
            << <<"ID", "id", KString, FALSE, FALSE>>,
               <<"Slug", "slug", KString, FALSE, FALSE>>,
               <<"Name", "name", KString, FALSE, FALSE>>,
               <<"About", "about", KRaw, TRUE, TRUE>>,
               <<"CreatorID", "creatorId", KString, FALSE, FALSE>>,
               <<"CreatedTime", "createdTime", KInt, FALSE, FALSE>>,
               <<"AnyoneCanJoin", "anyoneCanJoin", KPtr(KBool), TRUE, TRUE>>,
               <<"TotalMembers", "totalMembers", KInt, FALSE, FALSE>>,
               <<"PostIDs", "postIds", KSlice(KString), FALSE, FALSE>>,
               <<"CachedLeaderboard", "cachedLeaderboard", KPtr(KStruct("Leaderboard")), TRUE, TRUE>>,
               <<"BannerURL", "bannerUrl", KPtr(KString), TRUE, TRUE>>,
               <<"PrivacyStatus", "privacyStatus", KString, FALSE, FALSE>>,
               <<"ImportanceScore", "importanceScore", KFloat, FALSE, FALSE>> >>
      [] name = "Leaderboard" ->
            << <<"TopTraders", "topTraders", KSlice(KStruct("Trader")), FALSE, FALSE>>,
               <<"TopCreators", "topCreators", KSlice(KStruct("Trader")), FALSE, FALSE>> >>
      [] name = "Trader" ->
            << <<"UserID", "userId", KString, FALSE, FALSE>>,
               <<"Score", "score", KFloat, FALSE, FALSE>> >>
      [] name = "Option" ->
            << <<"Text", "text", KString, FALSE, FALSE>>,
               <<"Votes", "votes", KInt, FALSE, FALSE>> >>
      [] name = "FullMarket" ->
            << <<"ID", "id", KString, FALSE, FALSE>>,
               <<"CreatorID", "creatorId", KString, FALSE, FALSE>>,
               <<"CreatorUsername", "creatorUsername", KString, FALSE, FALSE>>,
               <<"CreatorName", "creatorName", KString, FALSE, FALSE>>,
               <<"CreatedTime", "createdTime", KInt, FALSE, FALSE>>,
               <<"CreatorAvatarURL", "creatorAvatarUrl", KPtr(KString), TRUE, TRUE>>,
               <<"CloseTime", "closeTime", KPtr(KInt), TRUE, TRUE>>,
               <<"Question", "question", KString, FALSE, FALSE>>,
               <<"Slug", "slug", KString, FALSE, FALSE>>,
               <<"URL", "url", KString, FALSE, FALSE>>,
               <<"OutcomeType", "outcomeType", KString, FALSE, FALSE>>,
               <<"Mechanism", "mechanism", KString, FALSE, FALSE>>,
               <<"Pool", "pool", KMap(KFloat), TRUE, TRUE>>,
               <<"Probability", "probability", KPtr(KFloat), TRUE, TRUE>>,
               <<"P", "p", KPtr(KFloat), TRUE, TRUE>>,
               <<"TotalLiquidity", "totalLiquidity", KPtr(KFloat), TRUE, TRUE>>,
               <<"Value", "value", KPtr(KFloat), TRUE, TRUE>>,
               <<"Min", "min", KPtr(KFloat), TRUE, TRUE>>,
               <<"Max", "max", KPtr(KFloat), TRUE, TRUE>>,
               <<"Volume", "volume", KFloat, FALSE, FALSE>>,
               <<"Volume24Hours", "volume24Hours", KFloat, FALSE, FALSE>>,
               <<"IsResolved", "isResolved", KBool, FALSE, FALSE>>,
               <<"Resolution", "resolution", KPtr(KString), TRUE, TRUE>>,
               <<"ResolutionTime", "resolutionTime", KPtr(KInt), TRUE, TRUE>>,
               <<"ResolutionProbability", "resolutionProbability", KPtr(KFloat), TRUE, TRUE>>,
               <<"UniqueBettorCount", "uniqueBettorCount", KInt, FALSE, FALSE>>,
               <<"LastUpdatedTime", "lastUpdatedTime", KPtr(KInt), TRUE, TRUE>>,
               <<"LastBetTime", "lastBetTime", KPtr(KInt), TRUE, TRUE>>,
               <<"MarketTier", "marketTier", KPtr(KString), TRUE, TRUE>>,
               <<"Answers", "answers", KPtr(KSlice(KStruct("ApiAnswer"))), TRUE, TRUE>>,
               <<"ShouldAnswersSumToOne", "shouldAnswersSumToOne", KPtr(KBool), TRUE, TRUE>>,
               <<"AddAnswersMode", "addAnswersMode", KPtr(KString), TRUE, TRUE>>,
               <<"Options", "options", KPtr(KSlice(KStruct("Option"))), TRUE, TRUE>>,
               <<"TotalBounty", "totalBounty", KPtr(KFloat), TRUE, TRUE>>,
               <<"BountyLeft", "bountyLeft", KPtr(KFloat), TRUE, TRUE>>,
               <<"Description", "description", KRaw, FALSE, FALSE>>,
               <<"TextDescription", "textDescription", KString, FALSE, FALSE>>,
               <<"CoverImageUrl", "coverImageUrl", KPtr(KString), TRUE, TRUE>>,
               <<"GroupSlugs", "groupSlugs", KPtr(KSlice(KString)), TRUE, TRUE>> >>
      [] name = "LiteMarket" ->
            << <<"ID", "id", KString, FALSE, FALSE>>,
               <<"CreatorID", "creatorId", KString, FALSE, FALSE>>,
               <<"CreatorUsername", "creatorUsername", KString, FALSE, FALSE>>,
               <<"CreatorName", "creatorName", KString, FALSE, FALSE>>,
               <<"CreatedTime", "createdTime", KInt, FALSE, FALSE>>,
               <<"CreatorAvatarURL", "creatorAvatarUrl", KPtr(KString), TRUE, TRUE>>,
               <<"CloseTime", "closeTime", KPtr(KInt), TRUE, TRUE>>,
               <<"Question", "question", KString, FALSE, FALSE>>,
               <<"Slug", "slug", KString, FALSE, FALSE>>,
               <<"URL", "url", KString, FALSE, FALSE>>,
               <<"OutcomeType", "outcomeType", KString, FALSE, FALSE>>,
               <<"Mechanism", "mechanism", KString, FALSE, FALSE>>,
               <<"Pool", "pool", KMap(KFloat), TRUE, TRUE>>,
               <<"Probability", "probability", KPtr(KFloat), TRUE, TRUE>>,
               <<"P", "p", KPtr(KFloat), TRUE, TRUE>>,
               <<"TotalLiquidity", "totalLiquidity", KPtr(KFloat), TRUE, TRUE>>,
               <<"Value", "value", KPtr(KFloat), TRUE, TRUE>>,
               <<"Min", "min", KPtr(KFloat), TRUE, TRUE>>,
               <<"Max", "max", KPtr(KFloat), TRUE, TRUE>>,
               <<"Volume", "volume", KFloat, FALSE, FALSE>>,
               <<"Volume24Hours", "volume24Hours", KFloat, FALSE, FALSE>>,
               <<"IsResolved", "isResolved", KBool, FALSE, FALSE>>,
               <<"Resolution", "resolution", KPtr(KString), TRUE, TRUE>>,
               <<"ResolutionTime", "resolutionTime", KPtr(KInt), TRUE, TRUE>>,
               <<"ResolutionProbability", "resolutionProbability", KPtr(KFloat), TRUE, TRUE>>,
               <<"UniqueBettorCount", "uniqueBettorCount", KInt, FALSE, FALSE>>,
               <<"LastUpdatedTime", "lastUpdatedTime", KPtr(KInt), TRUE, TRUE>>,
               <<"LastBetTime", "lastBetTime", KPtr(KInt), TRUE, TRUE>>,
               <<"MarketTier", "marketTier", KPtr(KString), TRUE, TRUE>> >>
      [] name = "ProbChanges" ->
            << <<"Day", "day", KFloat, FALSE, FALSE>>,
               <<"Week", "week", KFloat, FALSE, FALSE>>,
               <<"Month", "month", KFloat, FALSE, FALSE>> >>
      [] name = "Answer" ->
            << <<"ID", "id", KString, FALSE, FALSE>>,
               <<"Index", "index", KInt, FALSE, FALSE>>,
               <<"ContractID", "contractId", KString, FALSE, FALSE>>,
               <<"UserID", "userId", KString, FALSE, FALSE>>,
               <<"Text", "text", KString, FALSE, FALSE>>,
               <<"CreatedTime", "createdTime", KInt, FALSE, FALSE>>,
               <<"Color", "color", KPtr(KString), TRUE, TRUE>>,
               <<"PoolYes", "poolYes", KFloat, FALSE, FALSE>>,
               <<"PoolNo", "poolNo", KFloat, FALSE, FALSE>>,
               <<"Prob", "prob", KFloat, FALSE, FALSE>>,
               <<"TotalLiquidity", "totalLiquidity", KFloat, FALSE, FALSE>>,
               <<"SubsidyPool", "subsidyPool", KFloat, FALSE, FALSE>>,
               <<"IsOther", "isOther", KPtr(KBool), TRUE, TRUE>>,
               <<"Resolution", "resolution", KPtr(KString), TRUE, TRUE>>,
               <<"ResolutionTime", "resolutionTime", KPtr(KInt), TRUE, TRUE>>,
               <<"ResolutionProbability", "resolutionProbability", KPtr(KFloat), TRUE, TRUE>>,
               <<"ResolverID", "resolverId", KPtr(KString), TRUE, TRUE>>,
               <<"ProbChanges", "probChanges", KStruct("ProbChanges"), FALSE, FALSE>>,
               <<"LoverUserID", "loverUserId", KPtr(KString), TRUE, TRUE>> >>
      [] name = "ApiAnswer" ->
            << <<"ID", "id", KString, FALSE, FALSE>>,
               <<"Index", "index", KInt, FALSE, FALSE>>,
               <<"ContractID", "contractId", KString, FALSE, FALSE>>,
               <<"UserID", "userId", KString, FALSE, FALSE>>,
               <<"Text", "text", KString, FALSE, FALSE>>,
               <<"CreatedTime", "createdTime", KInt, FALSE, FALSE>>,
               <<"Color", "color", KPtr(KString), TRUE, TRUE>>,
               <<"PoolYes", "poolYes", KFloat, FALSE, FALSE>>,
               <<"PoolNo", "poolNo", KFloat, FALSE, FALSE>>,
               <<"Prob", "prob", KFloat, FALSE, FALSE>>,
               <<"TotalLiquidity", "totalLiquidity", KFloat, FALSE, FALSE>>,
               <<"SubsidyPool", "subsidyPool", KFloat, FALSE, FALSE>>,
               <<"IsOther", "isOther", KPtr(KBool), TRUE, TRUE>>,
               <<"Resolution", "resolution", KPtr(KString), TRUE, TRUE>>,
               <<"ResolutionTime", "resolutionTime", KPtr(KInt), TRUE, TRUE>>,
               <<"ResolutionProbability", "resolutionProbability", KPtr(KFloat), TRUE, TRUE>>,
               <<"ResolverID", "resolverId", KPtr(KString), TRUE, TRUE>>,
               <<"ProbChanges", "probChanges", KStruct("ProbChanges"), FALSE, FALSE>>,
               <<"LoverUserID", "loverUserId", KPtr(KString), TRUE, TRUE>>,
               <<"Probability", "probability", KFloat, FALSE, FALSE>>,
               <<"Pool", "pool", KMap(KFloat), FALSE, FALSE>> >>
      [] name = "ContractMetric" ->
            << <<"ID", "id", KInt, FALSE, FALSE>>,
               <<"ContractID", "contractId", KString, FALSE, FALSE>>,
               <<"From", "from", KMap(KStruct("PeriodMetrics")), TRUE, TRUE>>,
               <<"HasNoShares", "hasNoShares", KBool, FALSE, FALSE>>,
               <<"HasShares", "hasShares", KBool, FALSE, FALSE>>,
               <<"HasYesShares", "hasYesShares", KBool, FALSE, FALSE>>,
               <<"Invested", "invested", KFloat, FALSE, FALSE>>,
               <<"Loan", "loan", KFloat, FALSE, FALSE>>,
               <<"MaxSharesOutcome", "maxSharesOutcome", KPtr(KString), TRUE, TRUE>>,
               <<"Payout", "payout", KFloat, FALSE, FALSE>>,
               <<"Profit", "profit", KFloat, FALSE, FALSE>>,
               <<"ProfitPercent", "profitPercent", KFloat, FALSE, FALSE>>,
               <<"TotalShares", "totalShares", KMap(KFloat), FALSE, FALSE>>,
               <<"UserID", "userId", KString, FALSE, FALSE>>,
               <<"UserUsername", "userUsername", KString, FALSE, FALSE>>,
               <<"UserName", "userName", KString, FALSE, FALSE>>,
               <<"UserAvatarURL", "userAvatarUrl", KString, FALSE, FALSE>>,
               <<"LastBetTime", "lastBetTime", KInt, FALSE, FALSE>>,
               <<"AnswerID", "answerId", KPtr(KString), TRUE, TRUE>>,
               <<"ProfitAdjustment", "profitAdjustment", KPtr(KFloat), TRUE, TRUE>> >>
      [] name = "PeriodMetrics" ->
            << <<"Profit", "profit", KFloat, FALSE, FALSE>>,
               <<"ProfitPercent", "profitPercent", KFloat, FALSE, FALSE>>,
               <<"Invested", "invested", KFloat, FALSE, FALSE>>,
               <<"PrevValue", "prevValue", KFloat, FALSE, FALSE>>,
               <<"Value", "value", KFloat, FALSE, FALSE>> >>
      [] name = "Fees" ->
            << <<"CreatorFee", "creatorFee", KFloat, FALSE, FALSE>>,
               <<"PlatformFee", "platformFee", KFloat, FALSE, FALSE>>,
               <<"LiquidityFee", "liquidityFee", KFloat, FALSE, FALSE>> >>
      [] name = "Fill" ->
            << <<"MatchedBetID", "matchedBetId", KString, FALSE, TRUE>>,
               <<"Amount", "amount", KFloat, FALSE, FALSE>>,
               <<"Shares", "shares", KFloat, FALSE, FALSE>>,
               <<"Timestamp", "timestamp", KInt, FALSE, FALSE>>,
               <<"Fees", "fees", KStruct("Fees"), FALSE, FALSE>>,
               <<"IsSale", "isSale", KPtr(KBool), TRUE, TRUE>> >>
      [] name = "LimitProps" ->
            << <<"OrderAmount", "orderAmount", KFloat, FALSE, FALSE>>,
               <<"LimitProb", "limitProb", KFloat, FALSE, FALSE>>,
               <<"IsFilled", "isFilled", KBool, FALSE, FALSE>>,
               <<"IsCancelled", "isCancelled", KBool, FALSE, FALSE>>,
               <<"Fills", "fills", KSlice(KStruct("Fill")), FALSE, FALSE>>,
               <<"ExpiresAt", "expiresAt", KPtr(KInt), TRUE, TRUE>> >>
      [] name = "Bet" ->
            << <<"ID", "id", KString, FALSE, FALSE>>,
               <<"UserID", "userId", KString, FALSE, FALSE>>,
               <<"ContractID", "contractId", KString, FALSE, FALSE>>,
               <<"AnswerID", "answerId", KPtr(KString), TRUE, TRUE>>,
               <<"CreatedTime", "createdTime", KInt, FALSE, FALSE>>,
               <<"UpdatedTime", "updatedTime", KPtr(KInt), TRUE, TRUE>>,
               <<"Amount", "amount", KFloat, FALSE, FALSE>>,
               <<"LoanAmount", "loanAmount", KPtr(KFloat), TRUE, TRUE>>,
               <<"Outcome", "outcome", KString, FALSE, FALSE>>,
               <<"Shares", "shares", KFloat, FALSE, FALSE>>,
               <<"ProbBefore", "probBefore", KFloat, FALSE, FALSE>>,
               <<"ProbAfter", "probAfter", KFloat, FALSE, FALSE>>,
               <<"Fees", "fees", KStruct("Fees"), FALSE, FALSE>>,
               <<"IsApi", "isApi", KPtr(KBool), TRUE, TRUE>>,
               <<"IsRedemption", "isRedemption", KBool, FALSE, FALSE>>,
               <<"ReplyToCommentID", "replyToCommentId", KPtr(KString), TRUE, TRUE>>,
               <<"BetGroupID", "betGroupId", KPtr(KString), TRUE, TRUE>>,
               <<"LimitProps", "limitProps", KPtr(KStruct("LimitProps")), TRUE, TRUE>> >>
      [] name = "Txn" ->
            << <<"ID", "id", KString, FALSE, FALSE>>,
               <<"CreatedTime", "createdTime", KInt, FALSE, FALSE>>,
               <<"FromID", "fromId", KString, FALSE, FALSE>>,
               <<"FromType", "fromType", KString, FALSE, FALSE>>,
               <<"ToID", "toId", KString, FALSE, FALSE>>,
               <<"ToType", "toType", KString, FALSE, FALSE>>,
               <<"Amount", "amount", KFloat, FALSE, FALSE>>,
               <<"Token", "token", KString, FALSE, FALSE>>,
               <<"Category", "category", KString, FALSE, FALSE>>,
               <<"Description", "description", KPtr(KString), TRUE, TRUE>>,
               <<"Data", "data", KMap(KAny), TRUE, TRUE>> >>
      [] name = "Comment" ->
            << <<"ID", "id", KString, FALSE, FALSE>>,
               <<"ReplyToCommentID", "replyToCommentId", KPtr(KString), TRUE, TRUE>>,
               <<"UserID", "userId", KString, FALSE, FALSE>>,
               <<"Text", "text", KPtr(KString), TRUE, TRUE>>,
               <<"Content", "content", KRaw, FALSE, FALSE>>,
               <<"CreatedTime", "createdTime", KInt, FALSE, FALSE>>,
               <<"UserName", "userName", KString, FALSE, FALSE>>,
               <<"UserUsername", "userUsername", KString, FALSE, FALSE>>,
               <<"UserAvatarURL", "userAvatarUrl", KPtr(KString), TRUE, TRUE>>,
               <<"Likes", "likes", KPtr(KInt), TRUE, TRUE>>,
               <<"Hidden", "hidden", KPtr(KBool), TRUE, TRUE>>,
               <<"HiddenTime", "hiddenTime", KPtr(KInt), TRUE, TRUE>>,
               <<"HiderID", "hiderId", KPtr(KString), TRUE, TRUE>>,
               <<"Pinned", "pinned", KPtr(KBool), TRUE, TRUE>>,
               <<"PinnedTime", "pinnedTime", KPtr(KInt), TRUE, TRUE>>,
               <<"PinnerID", "pinnerId", KPtr(KString), TRUE, TRUE>>,
               <<"Visibility", "visibility", KString, FALSE, FALSE>>,
               <<"EditedTime", "editedTime", KPtr(KInt), TRUE, TRUE>>,
               <<"IsApi", "isApi", KPtr(KBool), TRUE, TRUE>> >>

GoName(f) == f[1]

Key(f) == f[2]

Kind(f) == f[3]

OmitEmpty(f) == f[4]

Optional(f) == f[5]

\* The field of struct name with Go name g.
FieldOf(name, g) == CHOOSE f \in Range(Fields(name)) : GoName(f) = g

GoNames(name) == { GoName(f) : f \in Range(Fields(name)) }

RECURSIVE Zero(_)
\* The zero value of a type: what `var x T` holds.  A nil pointer, map,
\* slice or RawMessage is Nil, a non-nil one is <<contents>>.
Zero(kind) ==
    CASE kind[1] = "string" -> ""
      [] kind[1] = "bool"   -> FALSE
      [] kind[1] \in {"int", "float"} -> 0
      [] kind[1] \in {"ptr", "map", "slice", "raw"} -> Nil
      [] kind[1] = "any"    -> JNull
      [] kind[1] = "struct" ->
            [g \in GoNames(kind[2]) |-> Zero(Kind(FieldOf(kind[2], g)))]

RECURSIVE DecodeValue(_, _, _)
\* json.Unmarshal of text j into a value of type kind that holds old: the
\* value afterwards and whether the text fitted the type.
DecodeValue(kind, j, old) ==
    LET jj == Unspace(j)
    IN  CASE kind[1] = "raw" ->
                \* RawMessage.UnmarshalJSON keeps the bytes, null included
                [v |-> Some([json |-> jj, spaced |-> IsSpaced(j)]), ok |-> TRUE]
          [] kind[1] = "any" -> [v |-> jj, ok |-> TRUE]
          [] kind[1] # "raw" /\ kind[1] # "any" /\ jj = JNull ->
                \* null sets a pointer, map or slice to nil and has no
                \* effect on anything else
                [v |-> IF kind[1] \in {"ptr", "map", "slice"} THEN Nil ELSE old,
                 ok |-> TRUE]
          [] kind[1] = "string" /\ jj # JNull ->
                IF jj[1] = "string" THEN [v |-> jj[2], ok |-> TRUE]
                ELSE [v |-> old, ok |-> FALSE]
          [] kind[1] = "bool" /\ jj # JNull ->
                IF jj[1] = "bool" THEN [v |-> jj[2], ok |-> TRUE]
                ELSE [v |-> old, ok |-> FALSE]
          [] kind[1] = "float" /\ jj # JNull ->
                IF jj[1] = "number" THEN [v |-> jj[2], ok |-> TRUE]
                ELSE [v |-> old, ok |-> FALSE]
          [] kind[1] = "int" /\ jj # JNull ->
                IF jj[1] = "number" /\ jj[2] % FloatDen = 0
                THEN [v |-> jj[2] \div FloatDen, ok |-> TRUE]
                ELSE [v |-> old, ok |-> FALSE]
          [] kind[1] = "ptr" /\ jj # JNull ->
                LET r == DecodeValue(kind[2], jj, Zero(kind[2]))
                IN  [v |-> Some(r.v), ok |-> r.ok]
          [] kind[1] = "map" /\ jj # JNull ->
                IF jj[1] = "object"
                THEN [v  |-> Some([k \in DOMAIN jj[2] |->
                                     DecodeValue(kind[2], jj[2][k], Zero(kind[2])).v]),
                      ok |-> \A k \in DOMAIN jj[2] :
                                 DecodeValue(kind[2], jj[2][k], Zero(kind[2])).ok]
                ELSE [v |-> old, ok |-> FALSE]
          [] kind[1] = "slice" /\ jj # JNull ->
                IF jj[1] = "array"
                THEN [v  |-> Some([i \in DOMAIN jj[2] |->
                                     DecodeValue(kind[2], jj[2][i], Zero(kind[2])).v]),
                      ok |-> \A i \in DOMAIN jj[2] :
                                 DecodeValue(kind[2], jj[2][i], Zero(kind[2])).ok]
                ELSE [v |-> old, ok |-> FALSE]
          [] kind[1] = "struct" /\ jj # JNull ->
                IF jj[1] = "object"
                THEN [v  |-> [g \in GoNames(kind[2]) |->
                                LET f == FieldOf(kind[2], g)
                                IN  IF Has(jj[2], Key(f))
                                    THEN DecodeValue(Kind(f), jj[2][Key(f)], old[g]).v
                                    ELSE old[g]],
                      ok |-> \A f \in Range(Fields(kind[2])) :
                                 Has(jj[2], Key(f)) =>
                                     DecodeValue(Kind(f), jj[2][Key(f)],
                                                 old[GoName(f)]).ok]
                ELSE [v |-> old, ok |-> FALSE]

\* What omitempty leaves out: false, 0, a nil pointer, a nil interface, and
\* an empty slice, map or string.
IsEmpty(kind, v) ==
    CASE kind[1] = "string" -> v = ""
      [] kind[1] = "bool"   -> v = FALSE
      [] kind[1] \in {"int", "float"} -> v = 0
      [] kind[1] \in {"ptr", "raw"} -> v = Nil
      [] kind[1] \in {"map", "slice"} -> v = Nil \/ v = Some(<<>>)
      [] kind[1] = "any"    -> v = JNull
      [] kind[1] = "struct" -> FALSE

RECURSIVE EncodeValue(_, _)
\* json.Marshal of value v of type kind.  The bytes of a RawMessage are
\* written compacted.
EncodeValue(kind, v) ==
    CASE kind[1] = "string" -> JStr(v)
      [] kind[1] = "bool"   -> JBool(v)
      [] kind[1] = "float"  -> JNum(v)
      [] kind[1] = "int"    -> JNum(v * FloatDen)
      [] kind[1] = "any"    -> v
      [] kind[1] = "raw"    -> IF v = Nil THEN JNull ELSE v[1].json
      [] kind[1] = "ptr"    -> IF v = Nil THEN JNull ELSE EncodeValue(kind[2], v[1])
      [] kind[1] = "map"    ->
            IF v = Nil THEN JNull
            ELSE JObj([k \in DOMAIN v[1] |-> EncodeValue(kind[2], v[1][k])])
      [] kind[1] = "slice"  ->
            IF v = Nil THEN JNull
            ELSE JArr([i \in DOMAIN v[1] |-> EncodeValue(kind[2], v[1][i])])
      [] kind[1] = "struct" ->
            LET kept == { f \in Range(Fields(kind[2])) :
                            ~(OmitEmpty(f) /\ IsEmpty(Kind(f), v[GoName(f)])) }
            IN  JObj([k \in { Key(f) : f \in kept } |->
                        LET f == CHOOSE f \in kept : Key(f) = k
                        IN  EncodeValue(Kind(f), v[GoName(f)])])

\* var x T; json.Unmarshal(data, &x)
UnmarshalRecord(name, data) == DecodeValue(KStruct(name), data, Zero(KStruct(name)))

\* json.Marshal(record) under the struct tags of types.go.
MarshalRecord(name, record) == EncodeValue(KStruct(name), record)

\* The records the claim is about.
RecordTypes ==
    {"User", "Group", "LiteMarket", "FullMarket", "Bet", "LimitProps", "Fill",
     "Txn", "Comment", "ContractMetric"}

RECURSIVE Sample(_)
\* A JSON value that fits the type and is not its zero value.
Sample(kind) ==
    CASE kind[1] = "string" -> JStr("a")
      [] kind[1] = "bool"   -> JBool(TRUE)
      [] kind[1] = "float"  -> JNum(1)
      [] kind[1] = "int"    -> JNum(FloatDen)
      [] kind[1] = "any"    -> JNum(1)
      [] kind[1] = "raw"    -> JObj("type" :> JStr("doc"))
      [] kind[1] = "ptr"    -> Sample(kind[2])
      [] kind[1] = "map"    -> JObj("YES" :> Sample(kind[2]))
      [] kind[1] = "slice"  -> JArr(<<Sample(kind[2])>>)
      [] kind[1] = "struct" ->
            JObj([k \in { Key(f) : f \in Range(Fields(kind[2])) } |->
                    Sample(Kind(CHOOSE f \in Range(Fields(kind[2])) : Key(f) = k))])

RECURSIVE Blank(_)
\* The JSON value of the type's zero or empty value.
Blank(kind) ==
    CASE kind[1] = "string" -> JStr("")
      [] kind[1] = "bool"   -> JBool(FALSE)
      [] kind[1] \in {"int", "float"} -> JNum(0)
      [] kind[1] = "any"    -> JNum(0)
      [] kind[1] = "raw"    -> JStr("")
      [] kind[1] = "ptr"    -> Blank(kind[2])
      [] kind[1] = "map"    -> JObj(<<>>)
      [] kind[1] = "slice"  -> JArr(<<>>)
      [] kind[1] = "struct" -> Sample(kind)

\* What a response may hold under the key of a field of type kind: a value,
\* the zero value, null, a value of another type, and a value written with
\* white space.
Variants(kind) ==
    { Sample(kind), Blank(kind), JNull, JArr(<<JBool(TRUE)>>), Spaced(Sample(kind)) }

\* The responses decoded into record name: the one with every field set,
\* and those that differ from it in one field, which is missing or holds
\* another value.
Documents(name) ==
    LET full == Sample(KStruct(name))[2]
    IN  { JObj(full) }
            \cup { JObj([k \in DOMAIN full \ {Key(f)} |-> full[k]]) :
                       f \in Range(Fields(name)) }
            \cup UNION { { JObj(Put(full, Key(f), j)) : j \in Variants(Kind(f)) } :
                            f \in Range(Fields(name)) }

\* The caller decodes a response into a record.
DecodeRecord ==
    /\ pc = "idle"
    /\ \E name \in RecordTypes : \E data \in Documents(name) :
        \E r \in { UnmarshalRecord(name, data) } :
            /\ pc' = "done"
            /\ op' = "json.Unmarshal"
            /\ args' = [type |-> name, data |-> data]
            /\ now' = Nil
            /\ trace' = <<"decode">>
            /\ request' = Nil
            /\ response' = Nil
            /\ err' = IF r.ok THEN NoErr ELSE <<"json: cannot unmarshal">>
            /\ value' = IF r.ok THEN Some([first |-> r.v]) ELSE Nil
            /\ UNCHANGED <<client, calls, heap>>

\* The caller encodes the record it decoded.
EncodeRecord ==
    /\ pc = "done" /\ op = "json.Unmarshal"
    /\ trace = <<"decode">> /\ err = NoErr
    /\ trace' = <<"decode", "marshal">>
    /\ value' = Some([first |-> value[1].first,
                      bytes |-> MarshalRecord(args.type, value[1].first)])
    /\ UNCHANGED <<client, pc, op, args, now, request, response, err, calls, heap>>

\* The caller decodes what it encoded.
DecodeAgain ==
    /\ pc = "done" /\ op = "json.Unmarshal"
    /\ trace = <<"decode", "marshal">>
    /\ \E r \in { UnmarshalRecord(args.type, value[1].bytes) } :
        /\ trace' = <<"decode", "marshal", "decode">>
        /\ err' = IF r.ok THEN NoErr ELSE <<"json: cannot unmarshal">>
        /\ value' = Some([first  |-> value[1].first,
                          bytes  |-> value[1].bytes,
                          second |-> r.v])
    /\ UNCHANGED <<client, pc, op, args, now, request, response, calls, heap>>

CodecNext == DecodeRecord \/ EncodeRecord \/ DecodeAgain \/ Return

CodecSpec == Init /\ [][CodecNext]_vars

-----------------------------------------------------------------------------
(* What the properties below are stated in. *)

\* Operation name has been called and has returned.
Returned(name) == pc = "done" /\ op = name

\* The call issued an HTTP request.
Issued == request # Nil

\* The messages at the root of an error that did not come from a check of
\* the arguments: transport, body-read, decoding and serialization failure.
NetworkMsgs ==
    {"http: request failed", "read: unexpected EOF", "json: cannot unmarshal",
     "json: unsupported value: NaN"}

\* e was produced by a check of the arguments.
IsValidationError(e) == e # NoErr /\ e[Len(e)] \notin NetworkMsgs

\* The public endpoint operations.
IsEndpoint ==
    pc = "done" /\ op \notin {"checkInRange", "checkOneOf", "Client.GET", "Client.POST"}

\* The map a request carries: the query of a GET, the body of a POST.
Query == request[1].query

Body == request[1].body[1]

-----------------------------------------------------------------------------
(* C1 - C10 *)

\* C1: checkInRange(value, min, max) returns an error exactly when
\* value < min or value > max, and nil for every value with
\* min <= value <= max; with min = 0 and max = 1000 it accepts exactly the
\* values 0..1000.
C1_CheckInRangeInclusive ==
    Returned("checkInRange") =>
        /\ ((err # NoErr) <=> (args.value < args.min \/ args.value > args.max))
        /\ ((args.min <= args.value /\ args.value <= args.max) => err = NoErr)
        /\ ((args.min = 0 /\ args.max = 1000) =>
                ((err = NoErr) <=> (args.value \in 0..1000)))

\* checkInRange(1000, 0, 1000) returned nil.
C1_Witness ==
    /\ Returned("checkInRange")
    /\ args.min = 0 /\ args.max = 1000 /\ args.value = 1000
    /\ err = NoErr

\* C2: checkOneOf(value, allowed...) returns nil exactly when value equals an
\* element of allowed; with an empty list it rejects every value.
C2_CheckOneOfMembership ==
    Returned("checkOneOf") =>
        /\ ((err = NoErr) <=> (args.value \in Range(args.allowed)))
        /\ (args.allowed = <<>> => err # NoErr)

\* checkOneOf("desc", "asc", "desc") returned nil.
C2_Witness ==
    /\ Returned("checkOneOf")
    /\ args.allowed = <<"asc", "desc">> /\ args.value = "desc"
    /\ err = NoErr

\* C3: in every endpoint operation all validation precedes the HTTP request:
\* a call that returns a validation error has issued no request, and no
\* check is evaluated after the request of the call was sent.
C3_ValidationBeforeRequest ==
    IsEndpoint =>
        /\ (IsValidationError(err) =>
                (~Issued /\ \A i \in DOMAIN trace : trace[i] # "request"))
        /\ \A i, j \in DOMAIN trace :
                (trace[i] = "request" /\ trace[j] = "check") => j < i

\* Bet.Create passed the checks of outcome and limitProb and failed a later
\* one, without a request.
C3_Witness ==
    /\ Returned("Bet.Create")
    /\ args.outcome # Nil /\ args.limitProb # Nil
    /\ IsValidationError(err)
    /\ Len(trace) >= 2 /\ trace[1] = "check" /\ trace[Len(trace)] = "check"
    /\ ~Issued

\* C4: Bet.Create returns an error and issues no POST whenever expiresAt is
\* non-nil and either limitProb is nil or expiresAt is earlier than the
\* current time, whatever amount, contractID, outcome, limitProb and dryRun.
C4_ExpiresAtRejected ==
    (/\ Returned("Bet.Create")
     /\ args.expiresAt # Nil
     /\ (args.limitProb = Nil \/ args.expiresAt[1] < now[1]))
        => (err # NoErr /\ ~Issued)

\* Bet.Create with a valid limitProb and an expiresAt before the clock
\* reading returned "cannot expire in the past" without a request.
C4_Witness ==
    /\ Returned("Bet.Create")
    /\ args.limitProb # Nil /\ args.expiresAt # Nil
    /\ args.expiresAt[1] < now[1]
    /\ err = <<"Bet: Create(expiresAt): limit order cannot expire in the past">>
    /\ ~Issued

\* The arguments of Bet.Create other than expiresAt pass their checks.
BetCreateOthersValid ==
    /\ args.outcome \in {Nil, Some("YES"), Some("NO")}
    /\ args.limitProb # Nil
    /\ 0 <= args.limitProb[1] /\ args.limitProb[1] <= 1 * FloatDen

\* C5 as stated: with limitProb set and expiresAt equal to the clock
\* reading, Bet.Create fails validation and issues no POST /bet.
C5_RejectsExpiresAtEqualNow ==
    (/\ Returned("Bet.Create")
     /\ args.limitProb # Nil /\ args.expiresAt # Nil
     /\ args.expiresAt[1] = now[1])
        => (IsValidationError(err) /\ ~Issued)

\* C5: Bet.Create rejects an expiresAt only when it is strictly earlier than
\* the clock reading: with the other arguments valid, an expiresAt equal to
\* or later than the reading passes validation and POST /bet is issued with
\* expiresAt in the body, and an earlier one fails validation with no request.
C5_RejectsOnlyPastExpiresAt ==
    (Returned("Bet.Create") /\ BetCreateOthersValid /\ args.expiresAt # Nil) =>
        /\ (args.expiresAt[1] >= now[1] =>
                /\ ~IsValidationError(err)
                /\ Issued
                /\ request[1].method = "POST"
                /\ request[1].url = client.BaseURL \o "/bet"
                /\ Has(Body, "expiresAt")
                /\ Body.expiresAt = FormatInt(UnixMilli(args.expiresAt[1])))
        /\ (args.expiresAt[1] < now[1] => (IsValidationError(err) /\ ~Issued))

\* Bet.Create with expiresAt equal to the clock reading issued POST /bet.
C5_Witness ==
    /\ Returned("Bet.Create")
    /\ BetCreateOthersValid
    /\ args.expiresAt # Nil /\ args.expiresAt[1] = now[1]
    /\ Issued /\ Has(Body, "expiresAt")

\* The Pct values of the first n resolutions of rs, added up.
RECURSIVE PctTotal(_, _)
PctTotal(rs, n) == IF n = 0 THEN 0 ELSE PctTotal(rs, n - 1) + rs[n].Pct

PNRangeError ==
    err = <<"Market: CreatePseudoNumeric",
            "invalid value: %v, must be within range [%v, %v]">>

\* C7: CreatePseudoNumeric passes the validation of initialValue exactly when
\* min < initialValue < max, for min, max and initialValue in a bounded range
\* (min below the largest int and max above the smallest, so that min + 1 and
\* max - 1 are what they read), min = max, min > max and max = min + 1
\* included, where every initialValue is rejected; a rejected call issues no
\* request.
C7_InitialValueStrictlyBetween ==
    (/\ Returned("Market.CreatePseudoNumeric")
     /\ args.min < MaxInt /\ args.max > MinInt) =>
        /\ (~PNRangeError <=>
                (args.min < args.initialValue /\ args.initialValue < args.max))
        /\ (PNRangeError => ~Issued)
        /\ (args.max <= args.min + 1 => PNRangeError)

\* CreatePseudoNumeric(min = 0, max = 10, initialValue = 5) passed and issued
\* its request.
C7_Witness ==
    /\ Returned("Market.CreatePseudoNumeric")
    /\ args.min = 0 /\ args.max = 10 /\ args.initialValue = 5
    /\ ~PNRangeError /\ Issued /\ Body.initialValue = 5

\* C8: CreateBinary issues POST /market only when 1 <= initialProb <= 99;
\* every other initialProb yields a validation error with no request; the
\* body of every issued request carries outcomeType "BINARY" and the same
\* initialProb.
C8_InitialProbRange ==
    Returned("Market.CreateBinary") =>
        /\ (Issued =>
                /\ 1 <= args.initialProb /\ args.initialProb <= 99
                /\ request[1].method = "POST"
                /\ request[1].url = client.BaseURL \o "/market"
                /\ Body.outcomeType = "BINARY"
                /\ Body.initialProb = args.initialProb)
        /\ ((args.initialProb < 1 \/ args.initialProb > 99) =>
                (IsValidationError(err) /\ ~Issued))

\* CreateBinary(initialProb = 99) issued its request.
C8_Witness ==
    /\ Returned("Market.CreateBinary")
    /\ args.initialProb = 99
    /\ Issued /\ Body.outcomeType = "BINARY" /\ Body.initialProb = 99

\* The list operations that take a limit, and those that take an offset.
LimitOps ==
    {"User.Users", "Mana.Managrams", "Comment.Comments", "Market.Markets",
     "Market.Search", "Bet.Bets"}

OffsetOps == {"Comment.Comments", "Market.Search"}

\* What a request carries for a limit in [0, 1000], and for an offset >= 0.
ValidLimits == { FormatInt(n) : n \in 0..1000 }

ValidOffsets == { FormatInt(n) : n \in { v \in OffsetVals : v >= 0 } }

\* C9: in every list operation a non-nil limit outside [0, 1000] or a
\* non-nil offset < 0 yields a validation error and no request, and every
\* issued request that carries a limit has 0 <= limit <= 1000 and every one
\* that carries an offset has offset >= 0.
C9_LimitAndOffsetInRange ==
    (pc = "done" /\ op \in LimitOps) =>
        /\ ((args.limit # Nil /\ (args.limit[1] < 0 \/ args.limit[1] > 1000)) =>
                (IsValidationError(err) /\ ~Issued))
        /\ ((op \in OffsetOps /\ args.offset # Nil /\ args.offset[1] < 0) =>
                (IsValidationError(err) /\ ~Issued))
        /\ ((Issued /\ Has(Query, "limit")) => Query.limit \in ValidLimits)
        /\ ((Issued /\ Has(Query, "offset")) => Query.offset \in ValidOffsets)

\* The write operations that take a monetary amount.
AmountOps ==
    {"Market.AddLiquidity", "Market.AddBounty", "Market.AwardBounty",
     "Bet.Create", "Mana.Managram"}

\* C10: every write operation that takes a monetary amount requires
\* amount > 0: a call with amount <= 0 returns a validation error and issues
\* no POST.
C10_AmountPositive ==
    (pc = "done" /\ op \in AmountOps /\ args.amount <= 0) =>
        (IsValidationError(err) /\ ~Issued)

-----------------------------------------------------------------------------
(* C11 - C20 *)

\* The whole milliseconds in t ticks since the epoch.
Millis(t) ==
    CHOOSE n \in 0..t : n * TicksPerMilli <= t /\ t < (n + 1) * TicksPerMilli

\* Map m holds the time t (a pointer) under key as the decimal digits of its
\* milliseconds, if t is non-nil.
MillisString(m, key, t) ==
    t # Nil => (Has(m, key) /\ m[key] = FormatInt(Millis(t[1])))

\* Map m holds the time t (a pointer) under key as the integer of its
\* milliseconds, if t is non-nil.
MillisNative(m, key, t) ==
    t # Nil => (Has(m, key) /\ m[key] = Millis(t[1]))

\* The market-creation operations.
CreateOps ==
    {"Market.CreateBinary", "Market.CreatePseudoNumeric", "Market.CreatePoll",
     "Market.CreateBountiedQuestion"}

\* C11: every timestamp parameter placed into a query map or a request body
\* (Managrams before/after, Groups beforeTime, Bets beforeTime/afterTime,
\* Bet.Create expiresAt, Market.Close closeTime, Create* closeTime) is
\* encoded as the integer number of milliseconds since the epoch of the
\* supplied time: decimal digits in string-valued maps, a native integer in
\* createMarket bodies.
C11_TimestampsInMillis ==
    (pc = "done" /\ Issued) =>
        /\ (op = "Mana.Managrams" =>
                /\ MillisString(Query, "before", args.before)
                /\ MillisString(Query, "after", args.after))
        /\ (op = "Group.Groups" =>
                MillisString(Query, "beforeTime", args.beforeTime))
        /\ (op = "Bet.Bets" =>
                /\ MillisString(Query, "beforeTime", args.beforeTime)
                /\ MillisString(Query, "afterTime", args.afterTime))
        /\ (op = "Bet.Create" => MillisString(Body, "expiresAt", args.expiresAt))
        /\ (op = "Market.Close" => MillisString(Body, "closeTime", args.closeTime))
        /\ (op \in CreateOps => MillisNative(Body, "closeTime", args.closeTime))

\* Managrams was called with before and after at the latest modelled time,
\* whose milliseconds differ from its ticks, and issued its request.
C11_Witness ==
    /\ Returned("Mana.Managrams")
    /\ args.before = Some(MaxTime) /\ args.after = Some(MaxTime)
    /\ Issued
    /\ Query.before = FormatInt(Millis(MaxTime))
    /\ Query.before # FormatInt(MaxTime)

\* C12: Client.GET and Client.POST attach the header
\* Authorization: "Key <APIKey>" to the outgoing request if and only if
\* Client.APIKey is non-empty, GET and POST alike.
C12_AuthorizationHeader ==
    (pc = "done" /\ Issued) =>
        /\ request[1].method \in {"GET", "POST"}
        /\ (Has(request[1].headers, "Authorization") <=> client.APIKey # "")
        /\ (client.APIKey # "" =>
                request[1].headers["Authorization"] = "Key " \o client.APIKey)

\* Client.GET of a client with an API key sent the header.
C12_Witness ==
    /\ Returned("Client.GET")
    /\ client.APIKey = "key"
    /\ Issued /\ request[1].method = "GET"
    /\ request[1].headers["Authorization"] = "Key key"

\* The body b handed to Client.POST can be serialized: none of its float64
\* values is NaN.
Serializable(b) == \A k \in b.floats : b.map[k] # NaN

\* C13: Client.POST sends the JSON serialization of body when body is non-nil
\* and a zero-length body when body is nil, always sets
\* Content-Type: application/json, and returns an error without sending any
\* request when body cannot be serialized to JSON.
C13_PostBody ==
    /\ Returned("Client.POST") =>
        /\ (args.body = Nil => (Issued /\ request[1].body = Nil))
        /\ ((args.body # Nil /\ Serializable(args.body[1])) =>
                (Issued /\ request[1].body = Some(args.body[1].map)))
        /\ ((args.body # Nil /\ ~Serializable(args.body[1])) =>
                (~Issued /\ response = Nil /\ err # NoErr /\ value = Nil))
        /\ (Issued => request[1].url = client.BaseURL \o args.endpoint)
    /\ (pc = "done" /\ Issued /\ request[1].method = "POST") =>
        /\ Has(request[1].headers, "Content-Type")
        /\ request[1].headers["Content-Type"] = "application/json"
    /\ (Returned("Bet.Cancel") /\ Issued) => request[1].body = Nil
    /\ (Returned("Mana.Managram") /\ args.amount = NaN) => (~Issued /\ err # NoErr)

\* Client.POST was handed a map holding NaN and returned the error of
\* json.Marshal without a request.
C13_Witness ==
    /\ Returned("Client.POST")
    /\ args.body # Nil /\ ~Serializable(args.body[1])
    /\ err = <<"json: unsupported value: NaN">>
    /\ ~Issued

\* C14: Client.GET and Client.POST never turn an HTTP status code into an
\* error: whenever the request is executed and its body read without
\* failure, they return the bytes of the response body with a nil error,
\* whatever the status code; they return an error only for a failure of the
\* execution or of the reading of the body, and POST for a failure of
\* json.Marshal.
C14_StatusIsNotAnError ==
    (pc = "done" /\ op \in {"Client.GET", "Client.POST"}) =>
        /\ ((Issued /\ ~response[1].neterr /\ ~response[1].readerr) =>
                /\ err = NoErr
                /\ value = Some([bytes |-> response[1].body]))
        /\ (err # NoErr =>
                \/ (Issued /\ (response[1].neterr \/ response[1].readerr))
                \/ (/\ ~Issued /\ op = "Client.POST"
                    /\ args.body # Nil /\ ~Serializable(args.body[1])))

\* Client.GET was answered 404 and returned the body with a nil error.
C14_Witness ==
    /\ Returned("Client.GET")
    /\ Issued /\ response[1].status = 404
    /\ err = NoErr /\ value = Some([bytes |-> "object"])

\* The messages at the root of an error of the transport stage (the request
\* could not be serialized, executed or its answer read) and of the decoding
\* stage.
TransportMsgs ==
    {"http: request failed", "read: unexpected EOF", "json: unsupported value: NaN"}

DecodeMsgs == {"json: cannot unmarshal"}

\* The sentinel of the transport stage of the operation that was called.
TransportSentinel ==
    IF Issued /\ request[1].method = "GET" THEN ErrorGETFailed ELSE ErrorPOSTFailed

\* C15: every error a public endpoint operation returns identifies the
\* failing stage: a transport failure yields an error that wraps
\* ErrorGETFailed (GET operations) or ErrorPOSTFailed (POST operations)
\* together with the underlying error, and a decoding failure one that wraps
\* ErrorFailedToParseResponse; this for all operations, market creation and
\* resolution included.
C15_ErrorsWrapSentinels ==
    (IsEndpoint /\ err # NoErr) =>
        /\ (err[Len(err)] \in TransportMsgs =>
                (Len(err) >= 3 /\ TransportSentinel \in Range(err)))
        /\ (err[Len(err)] \in DecodeMsgs =>
                (Len(err) >= 3 /\ ErrorFailedToParseResponse \in Range(err)))

\* What the call of caller c comes to when nothing runs beside it.
Alone(c) ==
    Exec(calls[c].all, Start, client,
         IF calls[c].resp # Nil THEN calls[c].resp[1] ELSE NetFail)

\* C16: the client is safe for concurrent use: under any interleaving of
\* calls made on one Client by several callers, no call writes the Client's
\* configuration, and each call's map is private to it, so that the request
\* a call sends, and what it returns, depend only on its own arguments and
\* the unchanged configuration.
C16_SafeForConcurrentUse ==
    /\ [][client' = client]_vars
    /\ [](\A c \in Callers :
            calls[c].pc = "done" =>
                /\ calls[c].st.request = Alone(c).request
                /\ calls[c].st.err = Alone(c).err
                /\ calls[c].st.value = Alone(c).value)

\* Two callers have both sent a request with a map of their own, built
\* while the other call was in progress, and the maps differ.
C16_Witness ==
    /\ calls[1].pc = "done" /\ calls[2].pc = "done"
    /\ calls[1].op = "Comment.Comment" /\ calls[2].op = "Comment.Comment"
    /\ calls[1].st.request # Nil /\ calls[2].st.request # Nil
    /\ calls[1].st.request[1].body[1]["content"] = "x"
    /\ calls[2].st.request[1].body[1]["content"] = "y"

\* The number of HTTP requests the call issued.
RequestCount == Cardinality({ i \in DOMAIN trace : trace[i] = "request" })

\* The call failed to serialize the body of its request.
MarshalFailed == err # NoErr /\ err[Len(err)] = "json: unsupported value: NaN"

\* A request that fails at transport level ends the call with the error.
FailureSurfaces ==
    (Issued /\ (response[1].neterr \/ response[1].readerr)) =>
        (err # NoErr /\ value = Nil /\ trace[Len(trace)] = "request")

\* C17 as stated: every call to an endpoint operation issues at most one
\* HTTP request: zero when validation fails, exactly one otherwise, and a
\* request that fails at transport level is not attempted again.
C17_OneRequestUnlessInvalid ==
    IsEndpoint =>
        /\ RequestCount <= 1
        /\ (IsValidationError(err) => RequestCount = 0)
        /\ (~IsValidationError(err) => RequestCount = 1)
        /\ FailureSurfaces

\* C17: every call to an endpoint operation issues at most one HTTP request:
\* zero when validation fails or when the body cannot be serialized to JSON,
\* exactly one otherwise, and a request that fails at transport level ends
\* the call with the error, without a second attempt.
C17_AtMostOneRequest ==
    IsEndpoint =>
        /\ RequestCount <= 1
        /\ (RequestCount = 1 <=> Issued)
        /\ ((IsValidationError(err) \/ MarshalFailed) => RequestCount = 0)
        /\ (~(IsValidationError(err) \/ MarshalFailed) => RequestCount = 1)
        /\ FailureSurfaces

\* Users passed its check, its one request failed at transport level and
\* the call returned the error.
C17_Witness ==
    /\ Returned("User.Users")
    /\ args.limit # Nil
    /\ Issued /\ response[1].neterr
    /\ trace = <<"check", "request">>
    /\ err = <<"User: Users", "GET failed", "http: request failed">>

-----------------------------------------------------------------------------
(* C18 *)

\* The optional (pointer) parameters of each operation: the argument, the
\* wire key it is sent under and how its value is written.
OptionalKeys(name) ==
    CASE name = "User.Users" ->
            { <<"limit", "limit", "int">>, <<"before", "before", "string">> }
      [] name = "Group.Groups" ->
            { <<"beforeTime", "beforeTime", "time">>,
              <<"availableToUserID", "availableToUserID", "string">> }
      [] name = "Mana.Managrams" ->
            { <<"toID", "toId", "string">>, <<"fromID", "fromId", "string">>,
              <<"limit", "limit", "int">>, <<"before", "before", "time">>,
              <<"after", "after", "time">> }
      [] name = "Mana.Managram" -> { <<"message", "message", "string">> }
      [] name = "Comment.Comments" ->
            { <<"contractID", "contractId", "string">>,
              <<"contractSlug", "contractSlug", "string">>,
              <<"limit", "limit", "int">>, <<"offset", "offset", "int">>,
              <<"userID", "userId", "string">> }
      [] name = "Bet.Bets" ->
            { <<"userID", "userId", "string">>, <<"username", "username", "string">>,
              <<"contractID", "contractId", "string">>,
              <<"contractSlug", "contractSlug", "string">>,
              <<"limit", "limit", "int">>, <<"before", "before", "string">>,
              <<"after", "after", "string">>,
              <<"beforeTime", "beforeTime", "time">>,
              <<"afterTime", "afterTime", "time">>,
              <<"kinds", "kinds", "string">>, <<"order", "order", "string">> }
      [] name = "Bet.Create" ->
            { <<"outcome", "outcome", "string">>, <<"limitProb", "limitProb", "float">>,
              <<"expiresAt", "expiresAt", "time">>, <<"dryRun", "dryRun", "bool">> }
      [] name = "Market.Markets" ->
            { <<"limit", "limit", "int">>, <<"sort", "sort", "string">>,
              <<"order", "order", "string">>, <<"before", "before", "string">>,
              <<"userID", "userID", "string">>, <<"groupID", "groupID", "string">> }
      [] name = "Market.Search" ->
            { <<"sort", "sort", "string">>, <<"filter", "filter", "string">>,
              <<"contractType", "contractType", "string">>,
              <<"topicSlug", "topicSlug", "string">>,
              <<"creatorID", "creatorId", "string">>,
              <<"limit", "limit", "int">>, <<"offset", "offset", "int">> }
      [] name \in {"Market.CreateBinary", "Market.CreatePseudoNumeric"} ->
            { <<"description", "description", "string">>,
              <<"closeTime", "closeTime", "millis">>,
              <<"visibility", "visibility", "string">>,
              <<"extraLiquidity", "extraLiquidity", "native">> }
      [] name \in {"Market.CreatePoll", "Market.CreateBountiedQuestion"} ->
            { <<"description", "description", "string">>,
              <<"closeTime", "closeTime", "millis">>,
              <<"visibility", "visibility", "string">> }
      [] name = "Market.Close" -> { <<"closeTime", "closeTime", "time">> }
      [] name = "Market.Group" -> { <<"remove", "remove", "bool">> }
      [] name = "Market.ResolveBinary" ->
            { <<"probabilityInt", "probabilityInt", "native">> }
      [] name = "Market.ResolveNumeric" ->
            { <<"value", "value", "native">>,
              <<"probabilityInt", "probabilityInt", "native">> }
      [] name = "Market.Sell" ->
            { <<"outcome", "outcome", "string">>, <<"shares", "shares", "float">>,
              <<"answerID", "answerId", "string">> }
      [] OTHER -> {}

\* The map the method assembled and handed to Client.GET or Client.POST.
Assembled == IF request[1].method = "GET" THEN Query ELSE Body

\* What a parameter with value v puts under its key.
Written(kind, v) ==
    CASE kind = "string" -> v
      [] kind = "int"    -> FormatInt(v)
      [] kind = "bool"   -> IF v THEN "true" ELSE "false"
      [] kind = "time"   -> FormatInt(Millis(v))
      [] kind = "float"  -> FormatFloat(v)
      [] kind = "millis" -> Millis(v)
      [] kind = "native" -> v

\* The key of parameter p is in the assembled map exactly if its pointer is
\* non-nil, and then it holds the pointed-to value.
KeyIffPresent(p) ==
    /\ Has(Assembled, p[2]) <=> args[p[1]] # Nil
    /\ args[p[1]] # Nil => Assembled[p[2]] = Written(p[3], args[p[1]][1])

\* C18: for every optional (pointer) parameter of every endpoint operation,
\* the assembled query map or body contains the parameter's wire key if and
\* only if the pointer is non-nil; a non-nil pointer to a zero value (limit 0,
\* offset 0, the empty string, remove false, dryRun false) contributes its
\* key with that value.
C18_OptionalKeyIffNonNil ==
    (IsEndpoint /\ Issued) => \A p \in OptionalKeys(op) : KeyIffPresent(p)

\* The same for every operation but Market.Search.
C18_ExceptSearch ==
    (IsEndpoint /\ Issued /\ op # "Market.Search") =>
        \A p \in OptionalKeys(op) : KeyIffPresent(p)

-----------------------------------------------------------------------------
(* C19 *)

\* A response has been decoded into a record without error.
Decoded == pc = "done" /\ op = "json.Unmarshal" /\ err = NoErr /\ value # Nil

\* The record has been encoded again, and that has been decoded again.
Reencoded == Decoded /\ Len(trace) >= 2

Redecoded == Decoded /\ Len(trace) = 3

\* The fields of the response that was decoded.
Document == args.data[2]

\* Field f is missing from the response or null in it.
NotPresent(f) == ~Has(Document, Key(f)) \/ Unspace(Document[Key(f)]) = JNull

\* Value v of type kind is the explicit not-present state.
IsNotPresent(kind, v) ==
    CASE kind[1] \in {"ptr", "map", "slice", "raw"} -> v = Nil
      [] kind[1] = "any" -> v = JNull
      [] OTHER -> FALSE

\* An optional field is nil in the record exactly if it is absent or null in
\* the response.
OptionalIsExplicit(f) ==
    NotPresent(f) <=> IsNotPresent(Kind(f), value[1].first[GoName(f)])

\* What the response holds for field f is what the record encodes to.
FieldPreserved(f) ==
    ~NotPresent(f) =>
        /\ Has(value[1].bytes[2], Key(f))
        /\ value[1].bytes[2][Key(f)] = Unspace(Document[Key(f)])

\* C19: decoding a JSON response into a record (User, Group, LiteMarket,
\* FullMarket, Bet, LimitProps, Fill, Txn, Comment, ContractMetric)
\* preserves every documented field; an optional field that is absent or
\* null in the JSON decodes to nil, which differs from the field being
\* present with a zero value; and encoding the decoded record and decoding
\* that again yields the same record.
C19_DecodeRoundTrip ==
    /\ Decoded =>
           \A f \in Range(Fields(args.type)) : Optional(f) => OptionalIsExplicit(f)
    /\ Reencoded => \A f \in Range(Fields(args.type)) : FieldPreserved(f)
    /\ Redecoded => value[1].second = value[1].first

\* The same for the optional fields that are pointers to a string, a bool or
\* a number, and for the fields that are not optional and not a RawMessage.
C19_PointersAndRequired ==
    /\ Decoded =>
           \A f \in Range(Fields(args.type)) :
               (Optional(f) /\ Kind(f) \in {KPtr(KString), KPtr(KBool), KPtr(KInt),
                                            KPtr(KFloat)})
                   => OptionalIsExplicit(f)
    /\ Reencoded =>
           \A f \in Range(Fields(args.type)) :
               (Kind(f) \in {KPtr(KString), KPtr(KBool), KPtr(KInt), KPtr(KFloat)}
                    \/ (~Optional(f) /\ Kind(f) # KRaw))
                   => FieldPreserved(f)

-----------------------------------------------------------------------------
(* C20 *)

\* The enumerated parameters of each operation: the argument, its allowed
\* values, the context its error is wrapped in and whether it is a pointer.
EnumParams(name) ==
    CASE name = "Bet.Bets" ->
            { <<"kinds", <<"open-limit">>, "Bet: Bets(kinds)", TRUE>>,
              <<"order", <<"asc", "desc">>, "Bet: Bets(order)", TRUE>> }
      [] name = "Bet.Create" ->
            { <<"outcome", <<"YES", "NO">>, "Bet: Create(outcome)", TRUE>> }
      [] name = "Market.Markets" ->
            { <<"sort", allowedMarketMarketsSort, "Market: Markets(sort)", TRUE>>,
              <<"order", <<"asc", "desc">>, "Market: Markets(order)", TRUE>> }
      [] name = "Market.Search" ->
            { <<"sort", allowedMarketSearchSort, "Market: Search(sort)", TRUE>>,
              <<"filter", allowedMarketSearchFilter, "Market: Search(filter)", TRUE>>,
              <<"contractType", allowedMarketSearchContractType,
                "Market: Search(contractType)", TRUE>> }
      [] name = "Market.CreateBinary" ->
            { <<"visibility", <<"public", "unlisted">>, "Market: CreateBinary", TRUE>> }
      [] name = "Market.CreatePseudoNumeric" ->
            { <<"visibility", <<"public", "unlisted">>,
                "Market: CreatePseudoNumeric", TRUE>> }
      [] name = "Market.CreatePoll" ->
            { <<"visibility", <<"public", "unlisted">>, "Market: CreatePoll", TRUE>> }
      [] name = "Market.CreateBountiedQuestion" ->
            { <<"visibility", <<"public", "unlisted">>,
                "Market: CreateBountiedQuestion", TRUE>> }
      [] name = "Market.Sell" ->
            { <<"outcome", <<"YES", "NO">>, "Market: Sell(outcome)", TRUE>> }
      [] name = "Market.ResolveBinary" ->
            { <<"outcome", <<"YES", "NO", "MKT", "CANCEL">>,
                "Market: ResolveBinary", FALSE>> }
      [] name = "Market.ResolveNumeric" ->
            { <<"outcome", <<"CANCEL">>, "Market: ResolveNumeric", FALSE>> }
      [] OTHER -> {}

\* The enumerated parameter p was supplied.
Supplied(p) == p[4] => args[p[1]] # Nil

\* Its value.
Supplies(p) == IF p[4] THEN args[p[1]][1] ELSE args[p[1]]

\* The error of the membership check of parameter p.
EnumError(p) == <<p[3], "invalid value: %v, allowed values are: %v">>

\* C20: for every enumerated string parameter of an endpoint operation (Bets
\* kinds and order, Markets sort and order, Search sort, filter and
\* contractType, visibility of the four Create* operations, outcome of
\* Bet.Create, Market.Sell, ResolveBinary and ResolveNumeric), a value that
\* is not in the allowed list yields a validation error and no request, and
\* every value of the list passes the check of that parameter.
C20_EnumeratedParameters ==
    IsEndpoint =>
        \A p \in EnumParams(op) :
            Supplied(p) =>
                /\ Supplies(p) \notin Range(p[2]) =>
                       /\ IsValidationError(err)
                       /\ ~Issued
                       /\ "request" \notin Range(trace)
                /\ Supplies(p) \in Range(p[2]) => err # EnumError(p)

\* Search was called with the last value of its sort list and sent it.
C20_Witness ==
    /\ Returned("Market.Search")
    /\ args.sort = Some("prob-ascending")
    /\ Issued /\ Has(Query, "sort") /\ Query.sort = "prob-ascending"

\* Search was called with a contract type outside the list and returned the
\* error of the check without a request.
C20_Rejected ==
    /\ Returned("Market.Search")
    /\ args.contractType = Some("all")
    /\ err = <<"Market: Search(contractType)",
               "invalid value: %v, allowed values are: %v">>
    /\ ~Issued

-----------------------------------------------------------------------------
(* C21 - C30 *)

\* C21: ResolveFreeResponse accepts only the outcomes "MKT" and "CANCEL":
\* for any other outcome it returns a validation error and issues no POST,
\* so the error of its outcome check is never discarded.
C21_FreeResponseOutcomeChecked ==
    (Returned("Market.ResolveFreeResponse") /\ args.outcome \notin {"MKT", "CANCEL"}) =>
        /\ IsValidationError(err)
        /\ ~Issued
        /\ "request" \notin Range(trace)

\* The resolutions ResolveFreeResponse was called with: none for a nil slice.
SuppliedResolutions == IF args.resolutions = Nil THEN <<>> ELSE args.resolutions[1]

\* C22: ResolveFreeResponse with outcome "MKT" and no resolutions (a nil or
\* an empty list, whose percentages sum to 0) returns a validation error and
\* issues no request; every resolve request it sends with outcome "MKT"
\* carries a resolutions list whose Pct values sum to 100.
C22_MktNeedsResolutions ==
    (Returned("Market.ResolveFreeResponse") /\ args.outcome = "MKT") =>
        /\ SuppliedResolutions = <<>> => (IsValidationError(err) /\ ~Issued)
        /\ Issued =>
               /\ Has(Body, "resolutions")
               /\ PctTotal(Body.resolutions, Len(Body.resolutions)) = 100

\* The wire keys of the optional parameters the call supplied.
SuppliedKeys == { p[2] : p \in { q \in OptionalKeys(op) : args[q[1]] # Nil } }

\* C23: Search sends the search term under the fixed query key "term": the
\* query map passed to GET /search-markets contains "term" -> term, and no
\* key whose name is derived from the term.
C23_SearchTermKey ==
    (Returned("Market.Search") /\ Issued) =>
        /\ Has(Query, "term") /\ Query.term = args.term
        /\ DOMAIN Query = {"term"} \cup SuppliedKeys

\* C24: every request issued by ResolveBinary or ResolveNumeric that carries
\* a probabilityInt has 0 <= probabilityInt <= 100, for every outcome and
\* whether or not value is supplied: a non-nil probabilityInt outside
\* [0, 100] always yields a validation error and no request.
C24_ProbabilityIntInRange ==
    (\/ Returned("Market.ResolveBinary")
     \/ Returned("Market.ResolveNumeric")) =>
        /\ (Issued /\ Has(Body, "probabilityInt")) =>
               Body.probabilityInt \in 0..100
        /\ (args.probabilityInt # Nil /\ args.probabilityInt[1] \notin 0..100) =>
               (IsValidationError(err) /\ ~Issued)

\* The operations that take a closeTime.
CloseTimeOps == CreateOps \cup {"Market.Close"}

\* The error of the closeTime check of the operation that was called.
CloseTimeError ==
    CASE op = "Market.Close" ->
            <<"Market: Close(closeTime): cannot close a market in the past">>
      [] op = "Market.CreateBinary" ->
            <<"Market: CreateBinary: closeTime cannot be in the past">>
      [] op = "Market.CreatePseudoNumeric" ->
            <<"Market: CreatePseudoNumeric: closeTime cannot be in the past">>
      [] op = "Market.CreatePoll" ->
            <<"Market: CreatePoll: closeTime cannot be in the past">>
      [] op = "Market.CreateBountiedQuestion" ->
            <<"Market: CreateBountiedQuestion: closeTime cannot be in the past">>

FireAndForgetOps ==
    {"Comment.Comment", "Comment.CommentHTML", "Comment.CommentMarkdown",
     "Market.Answer", "Market.Close", "Market.Group", "Bet.Cancel", "Mana.Managram"}

\* Client.POST was called and returned no error.
PostSucceeded == Issued /\ ~response[1].neterr /\ ~response[1].readerr

\* The result depends on the error of Client.POST alone, and nothing of the
\* answer is decoded.
PostDecides ==
    /\ err = NoErr <=> PostSucceeded
    /\ err # NoErr => ErrorPOSTFailed \in Range(err)
    /\ "decode" \notin Range(trace)
    /\ value = Nil

\* Market.Close was called with a closeTime before the clock reading.
ClosesInPast ==
    op = "Market.Close" /\ args.closeTime # Nil /\ args.closeTime[1] < now[1]

ListOps ==
    {"User.Users", "Group.Groups", "Market.Markets", "Market.Search",
     "Market.Positions", "Bet.Bets", "Comment.Comments", "Mana.Managrams"}

\* The record each single-record operation decodes the answer into.
RecordOf(name) ==
    CASE name \in {"User.User", "User.ID", "User.Me"} -> "User"
      [] name \in {"User.UserLite", "User.IDLite"} -> "DisplayUser"
      [] name \in {"Group.Group", "Group.ID"} -> "Group"
      [] name \in {"Market.Market", "Market.Slug"} -> "FullMarket"
      [] name \in {"Bet.Create", "Market.Sell"} -> "Bet"
      [] name \in {"Market.AddLiquidity", "Market.AddBounty", "Market.AwardBounty"} -> "Txn"
      [] name \in CreateOps \cup
             {"Market.ResolveBinary", "Market.ResolveFreeResponse",
              "Market.ResolveNumeric"} -> "LiteMarket"

RecordOps ==
    {"User.User", "User.ID", "User.Me", "User.UserLite", "User.IDLite",
     "Group.Group", "Group.ID", "Market.Market", "Market.Slug", "Bet.Create",
     "Market.Sell", "Market.AddLiquidity", "Market.AddBounty",
     "Market.AwardBounty", "Market.ResolveBinary", "Market.ResolveFreeResponse",
     "Market.ResolveNumeric"} \cup CreateOps

\* The body of an error answer: {"message": "..."}
ErrorObject == JObj([k \in {"message"} |-> JStr("not found")])

\* json.Unmarshal of the error object into a new record of every type a
\* single-record operation returns succeeds and leaves every field zero/nil.
ErrorObjectLeavesZero ==
    \A name \in { RecordOf(n) : n \in RecordOps } :
        UnmarshalRecord(name, ErrorObject) =
            [v |-> Zero(KStruct(name)), ok |-> TRUE]

\* The server answered with a non-2xx status and a JSON object.
ErrorAnswered ==
    /\ pc = "done" /\ response # Nil
    /\ ~response[1].neterr /\ ~response[1].readerr
    /\ response[1].status \notin 200..299
    /\ response[1].body = "object"

\* C27: when the server answers with a non-2xx status and a JSON error
\* object, list operations return an error wrapping
\* ErrorFailedToParseResponse, single-record operations return a nil error
\* and a record whose fields are all zero/nil, and no operation reports an
\* error for any other reason.
C27_ErrorPayloadOnlyFailsDecoding ==
    ErrorAnswered =>
        /\ op \in ListOps =>
              /\ err # NoErr
              /\ ErrorFailedToParseResponse \in Range(err)
              /\ value = Nil
        /\ op \in RecordOps =>
              /\ err = NoErr
              /\ value # Nil
              /\ ErrorObjectLeavesZero
        /\ err # NoErr => op \in ListOps

\* Me got a 404 answer holding an error object and returned a record and
\* a nil error.
C27_Witness ==
    /\ Returned("User.Me") /\ ErrorAnswered
    /\ response[1].status = 404
    /\ err = NoErr /\ value # Nil

\* Users got a 404 answer holding an error object and failed to decode it.
C27_ListWitness ==
    /\ Returned("User.Users") /\ ErrorAnswered
    /\ ErrorFailedToParseResponse \in Range(err)

\* The identifier filters of the read operations: the argument, and the
\* wire-format key of that filter.
IdFilters(name) ==
    CASE name = "Group.Groups" -> { <<"availableToUserID", "availableToUserId">> }
      [] name = "Mana.Managrams" -> { <<"toID", "toId">>, <<"fromID", "fromId">> }
      [] name = "Comment.Comments" ->
            { <<"contractID", "contractId">>, <<"userID", "userId">> }
      [] name = "Bet.Bets" ->
            { <<"userID", "userId">>, <<"contractID", "contractId">> }
      [] name = "Market.Markets" ->
            { <<"userID", "userId">>, <<"groupID", "groupId">> }
      [] name = "Market.Search" -> { <<"creatorID", "creatorId">> }
      [] OTHER -> {}

\* The parameter names of the Go methods.
GoCasedKeys == {"userID", "groupID", "availableToUserID"}

\* C28: in every read operation an identifier filter that is supplied is
\* sent under its wire-format key ending in "Id" (userId, contractId,
\* groupId, creatorId, toId, fromId), the same key in every operation, and
\* no query holds a key in the casing of the Go parameters (userID,
\* groupID, availableToUserID).
C28_IdentifierKeys ==
    (pc = "done" /\ Issued /\ request[1].method = "GET") =>
        /\ \A f \in IdFilters(op) :
              args[f[1]] # Nil =>
                  Has(Query, f[2]) /\ Query[f[2]] = args[f[1]][1]
        /\ DOMAIN Query \cap GoCasedKeys = {}

\* C29: every query map Search passes to GET holds only validated values
\* under the validated keys: a value under "sort", "filter" or
\* "contractType" is a member of the corresponding allowed list, a value
\* under "limit" is the decimal of an integer in [0, 1000] and a value
\* under "offset" the decimal of an integer >= 0, for every term.
C29_SearchQueryValidated ==
    (Returned("Market.Search") /\ Issued) =>
        /\ Has(Query, "sort") => Query["sort"] \in Range(allowedMarketSearchSort)
        /\ Has(Query, "filter") => Query["filter"] \in Range(allowedMarketSearchFilter)
        /\ Has(Query, "contractType") =>
              Query["contractType"] \in Range(allowedMarketSearchContractType)
        /\ Has(Query, "limit") => Query["limit"] \in ValidLimits
        /\ Has(Query, "offset") => Query["offset"] \in ValidOffsets

\* C30: the bounds min + 1 and max - 1 of CreatePseudoNumeric, computed in
\* ints of IntBits bits, do not wrap around into acceptance: for min the
\* largest int or max the smallest, as for every other min and max, no
\* request is issued with initialValue <= min or initialValue >= max.
C30_BoundsDoNotWrap ==
    (Returned("Market.CreatePseudoNumeric") /\ Issued) =>
        args.min < args.initialValue /\ args.initialValue < args.max

====
